---- MODULE Spec2Model ----
(***************************************************************************)
(* Order lifecycle engine of the trading bot (src/core_async.py), its     *)
(* persistent store (src/state_manager.py) and the exchange it talks to   *)
(* (src/modules/binance_integration.py).                                   *)
(*                                                                         *)
(* Units.  Quantities are integers in lots of the base asset, prices are  *)
(* integers in price units, notionals, costs and quote commissions are    *)
(* integers in lots x price units.  A value the code obtains by Decimal   *)
(* division (gross quantity, averaged entry price, PnL) is an exact       *)
(* fraction <<numerator, denominator>>.                                    *)
(*                                                                         *)
(* Every handler runs to completion as one action: the WebSocket reader   *)
(* awaits each callback before it reads the next message.  The effects a  *)
(* handler produces, in program order, are recorded in "out".              *)
(***************************************************************************)
EXTENDS Integers, Sequences, FiniteSets, TLC

\* ------------------------------------------------------------------ bounds
MaxOrders == 4      \* orders the exchange accepts from the trading handlers
MaxRecoveryOrders == 2   \* orders it accepts from the recovery routine on top of them
MaxQueue == 3       \* order-status events waiting in the user-data stream
MaxHistory == 3     \* rows of the trades table
MaxReplays == 1     \* executionReports the stream delivers a second time

\* ------------------------------------------------------- program constants
Symbol == "BTCUSDT"
QuoteAsset == "USDT"
BaseAsset == "BTC"
TpBps == 100                \* tp_percent 0.01
SlBps == 50                 \* sl_percent 0.005
PositionSizePct == 10       \* position_size_percent 0.1
MinBalance == 0             \* Decimal('0.00000001') in whole quote units

\* ---------------------------------------- market rules of the mock exchange
MinQty == 2
MaxQty == 3
StepSize == 1
MinNotional == 2000

NoneNum == -1               \* Python None where a number is expected
NoList == -1                \* orderListId of an order outside any list
NoCid == <<>>               \* absent clientOrderId
NoKey == <<>>               \* no internal id could be derived
NoHandler == <<>>           \* the stream task is not inside a handler
NoTask == <<>>              \* no exit flow is suspended

\* ------------------------------------------------------ exact fractions
RECURSIVE GCD(_, _)
GCD(a, b) == IF b = 0 THEN a ELSE GCD(b, a % b)

Abs(x) == IF x < 0 THEN -x ELSE x

Frac(n, d) ==
    LET g == GCD(Abs(n), d)
    IN  IF g = 0 THEN <<0, 1>> ELSE <<n \div g, d \div g>>

FInt(n) == <<n, 1>>
FAdd(a, b) == Frac(a[1] * b[2] + b[1] * a[2], a[2] * b[2])
FSub(a, b) == Frac(a[1] * b[2] - b[1] * a[2], a[2] * b[2])
FMulInt(a, k) == Frac(a[1] * k, a[2])
FLess(a, b) == a[1] * b[2] < b[1] * a[2]
FFloorDiv(a, k) == a[1] \div (a[2] * k)     \* a // k for a >= 0, k > 0
FAbs(a) == <<Abs(a[1]), a[2]>>
FZero == <<0, 1>>


\* ----------------------------------------------------------- state
VARIABLES
    running,        \* AsyncBotCore._is_running
    initialized,    \* AsyncBotCore._initialized
    wsHandler,      \* AsyncBotCore._ws_handler is set
    lock,           \* AsyncBotCore.lock: "free" or the holder
    positions,      \* rows of the positions table
    orders,         \* orders table: internal_id -> row
    history,        \* trades table in trade_id order
    stats,          \* AsyncBotCore.session_stats
    symbolInfo,     \* AsyncBotCore._symbol_info cache
    quoteFree,      \* free balance of the quote asset the entry flow reads
    balances,       \* StateManager._balances: asset -> free and locked amounts
    exch,           \* the exchange's book of resting orders: orderId -> order
    nextOrderId,    \* next orderId the exchange hands out
    nextListId,     \* next orderListId the exchange hands out
    wsQueue,        \* executionReport messages not yet read from the stream
    awaiting,       \* the call the stream task's handler is suspended in, if any
    exitTask,       \* the call the command task's exit flow is suspended in, if any
    now_ms,         \* time.time() in ms when the latest id sent out was made
    replays,        \* executionReports delivered twice so far
    out             \* effects of the handler that ran last, in program order

vars == <<running, initialized, wsHandler, lock, positions, orders, history, stats,
          symbolInfo, quoteFree, balances, exch, nextOrderId, nextListId, wsQueue, awaiting,
          exitTask,
          now_ms, replays, out>>

\* The whole state as one record, so that a handler and everything it calls
\* compose as functions from state to state.
Cur ==
    [running |-> running, initialized |-> initialized, wsHandler |-> wsHandler,
     lock |-> lock, positions |-> positions, orders |-> orders, history |-> history,
     stats |-> stats, symbolInfo |-> symbolInfo,
     quoteFree |-> quoteFree, balances |-> balances, exch |-> exch, nextOrderId |-> nextOrderId,
     nextListId |-> nextListId, wsQueue |-> wsQueue, awaiting |-> awaiting,
     exitTask |-> exitTask,
     now_ms |-> now_ms,
     replays |-> replays,
     out |-> <<>>]

Emit(s, what) == [s EXCEPT !.out = Append(@, what)]

\* the effects recorded in "out": emitted events, API calls, row writes
NoEvent == <<>>
Ev(type) == [t |-> "event", a |-> type, q |-> 0, id |-> NoKey, r |-> "", ev |-> NoEvent]
Call(name, a, q, id, r) == [t |-> name, a |-> a, q |-> q, id |-> id, r |-> r, ev |-> NoEvent]
\* the handler takes up event ev: the internal id and the purpose it resolved
Handle(ev, internal_id, purpose) ==
    [t |-> "handle", a |-> ev.X, q |-> ev.z, id |-> internal_id, r |-> purpose, ev |-> ev]

put_event(s, type) == Emit(s, Ev(type))

\* ------------------------------------------------- state_manager.py
EmptyMap == [k \in {} |-> 0]
MapPut(m, k, v) == [x \in DOMAIN m \cup {k} |-> IF x = k THEN v ELSE m[x]]
MapDel(m, k) == [x \in DOMAIN m \ {k} |-> m[x]]

HasPosition(s) == \E p \in s.positions : p.symbol = Symbol
get_open_position(s) == CHOOSE p \in s.positions : p.symbol = Symbol

\* INSERT OR REPLACE keyed by symbol
set_open_position(s, row) ==
    [s EXCEPT !.positions = {p \in @ : p.symbol # row.symbol} \cup {row}]

AllowedFields ==
    {"quantity", "entry_price", "entry_timestamp", "entry_order_id_binance",
     "entry_client_order_id", "entry_cost", "entry_commission",
     "entry_commission_asset", "status", "oco_list_id"}

\* UPDATE positions SET field = value WHERE symbol = Symbol
update_open_position_field(s, field, value) ==
    [s EXCEPT !.positions =
        {IF p.symbol = Symbol THEN [p EXCEPT ![field] = value] ELSE p : p \in @}]

delete_open_position(s) ==
    [s EXCEPT !.positions = {p \in @ : p.symbol # Symbol}]

\* INSERT INTO trades; the new row's trade_id is its place in the table
add_trade_history_entry(s, row) == [s EXCEPT !.history = Append(@, row)]
LastTradeId(s) == Len(s.history)

update_trade_pnl(s, trade_id, pnl) ==
    [s EXCEPT !.history[trade_id].pnl = pnl]

HasActiveOrder(s, internal_id) == internal_id \in DOMAIN s.orders
get_active_order(s, internal_id) == s.orders[internal_id]

add_or_update_active_order(s, internal_id, row) ==
    [s EXCEPT !.orders = MapPut(@, internal_id, row)]

remove_active_order(s, internal_id) ==
    [s EXCEPT !.orders = MapDel(@, internal_id)]

\* StateManager.set_balances: the map is replaced by the snapshot as given
set_balances(s, balance_data) == [s EXCEPT !.balances = balance_data]

\* StateManager.update_balance_asset: one asset set directly; a zero
\* balance is dropped from the map
update_balance_asset(s, asset, free, locked) ==
    [s EXCEPT !.balances = IF free = 0 /\ locked = 0 THEN MapDel(@, asset)
                           ELSE MapPut(@, asset, [free |-> free, locked |-> locked])]

\* StateManager.update_balance_delta: the free amount moved by delta; the
\* answer is whether a full balance query is needed
update_balance_delta(s, asset, delta) ==
    IF asset \in DOMAIN s.balances
    THEN LET new_free == s.balances[asset].free + delta
         IN  [s |-> [s EXCEPT !.balances =
                        IF new_free = 0 /\ @[asset].locked = 0 THEN MapDel(@, asset)
                        ELSE [@ EXCEPT ![asset].free = new_free]],
              needs_full_fetch |-> new_free < 0]
    ELSE IF delta > 0
    THEN [s |-> [s EXCEPT !.balances = MapPut(@, asset, [free |-> delta, locked |-> 0])],
          needs_full_fetch |-> TRUE]
    ELSE [s |-> s, needs_full_fetch |-> FALSE]

\* StateManager.update_balances: every asset of the update is written over
\* the map's entry, the other assets stay
update_balances(s, balances_update) ==
    [s EXCEPT !.balances = [a \in DOMAIN @ \cup DOMAIN balances_update |->
                               IF a \in DOMAIN balances_update THEN balances_update[a] ELSE @[a]]]

clear_active_orders_for_symbol(s) ==
    [s EXCEPT !.orders = [k \in {x \in DOMAIN @ : @[x].symbol # Symbol} |-> @[k]]]

\* ------------------------------------------------- pure helpers of the core
\* f"{prefix}_{now_ms}"[-32:]; every prefix the engine uses leaves the text
\* shorter than 32 characters, so nothing is cut off.
\* "elapsed" is the time on the clock since the latest id that reached the
\* exchange was made.
generate_client_order_id(s, prefix, elapsed) == <<prefix, s.now_ms + elapsed>>

\* the text of a clientOrderId up to its first underscore
FirstToken(prefix) ==
    CASE prefix = "entry" -> "entry"
      [] prefix \in {"exit_signal", "exit_manual", "exit_protection", "exit_unknown"} -> "exit"
      [] prefix = "oco" -> "oco"
      [] OTHER -> prefix

\* clientOrderId.startswith('entry_') or ... 'exit_' ... 'oco_' ... 'tp_' ... 'sl_'
HasEnginePrefix(c) == FirstToken(c[1]) \in {"entry", "exit", "oco", "tp", "sl"}

OidKey(i) == <<"#", i>>      \* str(orderId)

\* steps 1 of the order-update handler: the internal id of an event
InternalIdOf(ev) ==
    IF ev.c # NoCid /\ HasEnginePrefix(ev.c) THEN ev.c
    ELSE IF ev.i # 0 THEN OidKey(ev.i)
    ELSE NoKey

NoInfo == [ok |-> FALSE, price_filter |-> FALSE, tickSize |-> 0]

NoneQty == <<>>             \* Python None where a Decimal quantity is expected

\* Decimal // for a fraction a and an integer k > 0: the quotient truncated
\* towards zero
FTruncDiv(a, k) ==
    IF a[1] >= 0 THEN a[1] \div (a[2] * k) ELSE -((-a[1]) \div (a[2] * k))

apply_lot_size_RoundsUp(quantity, minQty, maxQty, stepSize) ==
    IF FLess(quantity, FInt(minQty)) THEN NoneQty
    ELSE LET capped == IF FLess(FInt(maxQty), quantity) THEN FInt(maxQty) ELSE quantity
             adjusted == IF stepSize > 0
                         THEN FInt((FTruncDiv(capped, stepSize)
                                    + (IF FInt(FTruncDiv(capped, stepSize) * stepSize) = capped
                                       THEN 0 ELSE 1)) * stepSize)
                         ELSE capped
         IN  IF FLess(adjusted, FInt(minQty)) THEN NoneQty ELSE adjusted

\* steps 1-4 of _adjust_quantity_async under the LOT_SIZE rule (minQty,
\* maxQty, stepSize): None, or the quantity capped and floored to the step
apply_lot_size(quantity, minQty, maxQty, stepSize) ==
    IF FLess(quantity, FInt(minQty)) THEN NoneQty
    ELSE LET capped == IF FLess(FInt(maxQty), quantity) THEN FInt(maxQty) ELSE quantity
             adjusted == IF stepSize > 0 THEN FInt(FTruncDiv(capped, stepSize) * stepSize)
                         ELSE capped
         IN  IF FLess(adjusted, FInt(minQty)) THEN NoneQty ELSE adjusted

\* _adjust_quantity_async on a cached symbol_info: None or the floored
\* quantity, a whole number of lots under the rule of the symbol
adjust_quantity(info, q) ==
    IF ~info.ok THEN NoneNum
    ELSE CHOOSE x \in {IF r = NoneQty THEN NoneNum ELSE r[1] :
                          r \in {apply_lot_size(q, MinQty, MaxQty, StepSize)}} : TRUE

\* _check_min_notional_async on a cached symbol_info
check_min_notional(info, quantity, price) ==
    /\ info.ok
    /\ quantity > 0
    /\ price > 0
    /\ quantity * price >= MinNotional

CeilDiv(a, b) == (a + b - 1) \div b

\* quantize(Decimal('0'), rounding='ROUND_UP') of a / b for b > 0: away from
\* zero
RoundUpDiv(a, b) == IF a >= 0 THEN CeilDiv(a, b) ELSE -CeilDiv(-a, b)

\* steps 3-4 of _place_oco_order_async for take-profit and stop-loss
\* percentages given in basis points: the three prices and whether they
\* pass validation
OcoPricesAt(entry_price, tickSize, tp_bps, sl_bps) ==
    LET n == entry_price[1]
        d == entry_price[2]
        tp_price == ((n * (10000 + tp_bps)) \div (d * 10000 * tickSize)) * tickSize
        sl_trigger_price == RoundUpDiv(n * (10000 - sl_bps), d * 10000 * tickSize) * tickSize
        lim0 == sl_trigger_price - tickSize
        sl_limit_price == IF lim0 <= 0 THEN tickSize ELSE lim0
    IN  [tp |-> tp_price, sl_trigger |-> sl_trigger_price, sl_limit |-> sl_limit_price,
         valid |-> /\ FLess(entry_price, FInt(tp_price))
                   /\ FLess(FInt(sl_trigger_price), entry_price)
                   /\ (sl_limit_price < sl_trigger_price \/ ~(sl_trigger_price > tickSize))]

\* the prices under the configured percentages
OcoPrices(entry_price, tickSize) == OcoPricesAt(entry_price, tickSize, TpBps, SlBps)

NoPnl == <<>>

\* commission of one side converted to the quote asset
CommissionQuote(amount, asset, price) ==
    IF amount > 0 /\ asset = QuoteAsset THEN FInt(amount)
    ELSE IF amount > 0 /\ asset = BaseAsset THEN FMulInt(price, amount)
    ELSE FZero

calculate_trade_pnl_AtEntryPrice(pos, exit_avg_price, exit_filled_qty, exit_commission, exit_asset) ==
    LET entry_qty_abs == Abs(pos.quantity)
    IN  IF pos.entry_price[1] <= 0 \/ entry_qty_abs <= 0 THEN NoPnl
        ELSE IF exit_avg_price[1] <= 0 \/ exit_filled_qty <= 0 THEN NoPnl
        ELSE LET total == FAdd(CommissionQuote(pos.entry_commission, pos.entry_commission_asset, pos.entry_price),
                               CommissionQuote(exit_commission, exit_asset, pos.entry_price))
                 entry_value == FMulInt(pos.entry_price, entry_qty_abs)
                 exit_value == FMulInt(exit_avg_price, exit_filled_qty)
             IN  <<FSub(FSub(exit_value, entry_value), total), total>>

\* _calculate_trade_pnl: <<pnl_net, total_commission_quote>> or NoPnl
calculate_trade_pnl(pos, exit_avg_price, exit_filled_qty, exit_commission, exit_asset) ==
    LET entry_qty_abs == Abs(pos.quantity)
    IN  IF pos.entry_price[1] <= 0 \/ entry_qty_abs <= 0 THEN NoPnl
        ELSE IF exit_avg_price[1] <= 0 \/ exit_filled_qty <= 0 THEN NoPnl
        ELSE LET total == FAdd(CommissionQuote(pos.entry_commission, pos.entry_commission_asset, pos.entry_price),
                               CommissionQuote(exit_commission, exit_asset, exit_avg_price))
                 entry_value == FMulInt(pos.entry_price, entry_qty_abs)
                 exit_value == FMulInt(exit_avg_price, exit_filled_qty)
             IN  <<FSub(FSub(exit_value, entry_value), total), total>>

\* _update_session_stats_async
update_session_stats(s, pnl, commission) ==
    put_event([s EXCEPT !.stats =
            [total_trades |-> @.total_trades + 1,
             winning_trades |-> @.winning_trades + (IF pnl[1] > 0 THEN 1 ELSE 0),
             losing_trades |-> @.losing_trades + (IF pnl[1] < 0 THEN 1 ELSE 0),
             total_pnl |-> FAdd(@.total_pnl, pnl),
             total_commission |-> FAdd(@.total_commission, commission)]],
              "STATS_UPDATE")

reset_session_stats ==
    [total_trades |-> 0, winning_trades |-> 0, losing_trades |-> 0,
     total_pnl |-> FZero, total_commission |-> FZero]

\* StateManager.add_or_update_active_order as the engine calls it: the row
\* the engine keeps (purpose, status and the ids) and the write's place in
\* the program order
SaveOrder(s, internal_id, purpose, status, order_id, coid, side) ==
    Emit(add_or_update_active_order(s, internal_id,
            [symbol |-> Symbol, purpose |-> purpose, status |-> status,
             order_id_binance |-> order_id, client_order_id |-> coid, side |-> side]),
         Call("row", purpose, order_id, internal_id, status))

\* ------------------------------------------------- the exchange
\* A market order trades at once, in one or two trades; only the two legs of
\* an order list rest in the book.
OpenStatuses == {"NEW", "PARTIALLY_FILLED"}

OpenOrders(s) == DOMAIN s.exch

\* the executionReport the exchange publishes for an order in state ord
ExecutionReport(i, ord, l, L, n, N) ==
    [i |-> i, c |-> ord.c, g |-> ord.g, S |-> ord.S, o |-> ord.o, X |-> ord.X,
     q |-> ord.q, z |-> ord.z, l |-> l, L |-> L,
     ap |-> IF ord.z > 0 THEN Frac(ord.Z, ord.z) ELSE FZero,
     n |-> n, N |-> N]

\* only a connected user-data stream carries the report
Publish(s, report) ==
    IF s.running THEN [s EXCEPT !.wsQueue = Append(@, report)] ELSE s

NewOrder(coid, side, type, qty, list, price) ==
    [c |-> coid, S |-> side, o |-> type, q |-> qty, z |-> 0, Z |-> 0,
     X |-> "NEW", g |-> list, p |-> price]

\* the order after a trade of l lots at price L
Traded(ord, l, L) ==
    [ord EXCEPT !.z = @ + l, !.Z = @ + l * L,
                !.X = IF ord.z + l = ord.q THEN "FILLED" ELSE "PARTIALLY_FILLED"]

Fill(l, L, comm) == [l |-> l, L |-> L, n |-> comm[1], N |-> comm[2]]

\* the trades of a market order of qty lots under a plan
Fills(qty, plan) ==
    IF plan.first = 0 \/ plan.first >= qty THEN <<Fill(qty, plan.L2, plan.comm)>>
    ELSE <<Fill(plan.first, plan.L1, plan.comm), Fill(qty - plan.first, plan.L2, plan.comm)>>

\* the exchange reports the trades of a market order one after the other
RECURSIVE PublishTrades(_, _, _, _)
PublishTrades(s, i, ord, fills) ==
    IF fills = <<>> THEN s
    ELSE LET f == Head(fills)
             ord1 == Traded(ord, f.l, f.L)
         IN  PublishTrades(Publish(s, ExecutionReport(i, ord1, f.l, f.L, f.n, f.N)),
                           i, ord1, Tail(fills))

\* the exchange takes a market order: it is reported NEW and then trades
ExMarket(s, coid, side, qty, plan) ==
    LET fills == Fills(qty, plan)
        i == s.nextOrderId
        ord == NewOrder(coid, side, "MARKET", qty, NoList, 0)
        s1 == Publish([s EXCEPT !.nextOrderId = @ + 1], ExecutionReport(i, ord, 0, 0, 0, ""))
    IN  PublishTrades(s1, i, ord, fills)

\* the exchange books a resting order and reports it NEW
ExRest(s, coid, side, type, qty, list, price) ==
    LET i == s.nextOrderId
        ord == NewOrder(coid, side, type, qty, list, price)
    IN  Publish([s EXCEPT !.nextOrderId = @ + 1, !.exch = MapPut(@, i, ord)],
                ExecutionReport(i, ord, 0, 0, 0, ""))

\* the exchange ends the resting order i with the given status and reports it
ExEnd(s, i, status) ==
    Publish([s EXCEPT !.exch = MapDel(@, i)],
            ExecutionReport(i, [s.exch[i] EXCEPT !.X = status], 0, 0, 0, ""))

RECURSIVE ExEndAll(_, _, _)
ExEndAll(s, ids, status) ==
    IF ids = {} THEN s
    ELSE LET i == CHOOSE x \in ids : \A y \in ids : x <= y
         IN  ExEndAll(ExEnd(s, i, status), ids \ {i}, status)

\* BinanceAPI.place_order for a market order: the response, or None for a
\* rejection, an error or a timeout; with outcome "LOST" the order reached
\* the exchange although the call returned None, with "AWAIT" it reached the
\* exchange and the caller still waits for the response
place_order(s, side, qty, coid, env) ==
    LET booked == ExMarket([s EXCEPT !.now_ms = coid[2]], coid, side, qty, env.fills)
        s1 == IF env.place \in {"OK", "LOST", "AWAIT"} THEN booked ELSE s
    IN  [s |-> Emit(s1, Call("place_order", side, qty, coid, env.place)),
         ok |-> env.place = "OK",
         orderId |-> s.nextOrderId,
         status |-> env.status]

\* clientOrderId the exchange gives a leg the caller did not name
ExchangeCid(i) == <<"x", i>>

\* BinanceAPI.place_oco_order: the engine names the list only, so the
\* exchange names the legs itself; outcome "OK_NOCID" is a response whose
\* order reports carry no clientOrderId
place_oco_order(s, qty, prices, outcome) ==
    LET tp == s.nextOrderId
        sl == s.nextOrderId + 1
        list == s.nextListId
        s1 == ExRest(s, ExchangeCid(tp), "SELL", "LIMIT_MAKER", qty, list, prices.tp)
        s2 == ExRest(s1, ExchangeCid(sl), "SELL", "STOP_LOSS_LIMIT", qty, list, prices.sl_limit)
        s3 == [s2 EXCEPT !.nextListId = @ + 1]
        ok == outcome \in {"OK_CID", "OK_NOCID"}
        cid(i) == IF outcome = "OK_CID" THEN ExchangeCid(i) ELSE NoCid
    IN  [s |-> Emit(IF ok THEN s3 ELSE s, Call("place_oco_order", "SELL", qty, NoKey, outcome)),
         ok |-> ok,
         orderListId |-> list,
         orderReports |-> <<[orderId |-> tp, clientOrderId |-> cid(tp), type |-> "LIMIT_MAKER", status |-> "NEW"],
                            [orderId |-> sl, clientOrderId |-> cid(sl), type |-> "STOP_LOSS_LIMIT", status |-> "NEW"]>>]

\* BinanceAPI.cancel_all_orders: the list of cancelled orders, or None
cancel_all_orders(s, outcome) ==
    [s |-> Emit(IF outcome = "OK" THEN ExEndAll(s, OpenOrders(s), "CANCELED") ELSE s,
                Call("cancel_all_orders", "", 0, NoKey, outcome)),
     ok |-> outcome = "OK"]

\* BinanceAPI.cancel_order of the open orders "ids" the request names: the
\* exchange's answer, which is truthy also when it knows no such open order
\* (error -2011), or None
cancel_order(s, ids, outcome) ==
    [s |-> Emit(IF outcome = "OK" THEN ExEndAll(s, ids \cap OpenOrders(s), "CANCELED") ELSE s,
                Call("cancel_order", "", 0, NoKey, outcome)),
     ok |-> outcome = "OK"]

get_open_orders_AlwaysOk(s, outcome) ==
    [s |-> Emit(s, Call("get_open_orders", "", 0, NoKey, outcome)),
     ok |-> TRUE,
     orders |-> OpenOrders(s)]

\* BinanceAPI.get_open_orders: the open orders, or None
get_open_orders(s, outcome) ==
    [s |-> Emit(s, Call("get_open_orders", "", 0, NoKey, outcome)),
     ok |-> outcome = "OK",
     orders |-> OpenOrders(s)]

\* ------------------------------------------------- flows of the core
\* _get_symbol_info_async: the cache, or one request whose answer "fetched"
\* (NoInfo when the request fails) is cached when it is usable
get_symbol_info(s, fetched) ==
    IF s.symbolInfo.ok THEN s ELSE [s EXCEPT !.symbolInfo = fetched]

cancel_all_active_orders_safely_Proceeds(s, env) ==
    LET r == cancel_all_orders(s, env.cancel)
    IN  IF ~r.ok THEN [s |-> put_event(r.s, "CRITICAL_ERROR"), ok |-> TRUE]
        ELSE [s |-> clear_active_orders_for_symbol(r.s), ok |-> TRUE]

cancel_all_active_orders_safely_Silent(s, env) ==
    LET r == cancel_all_orders(s, env.cancel)
    IN  IF ~r.ok THEN [s |-> r.s, ok |-> FALSE]
        ELSE [s |-> clear_active_orders_for_symbol(r.s), ok |-> TRUE]

\* _cancel_all_active_orders_safely
cancel_all_active_orders_safely(s, env) ==
    LET r == cancel_all_orders(s, env.cancel)
    IN  IF ~r.ok THEN [s |-> put_event(r.s, "CRITICAL_ERROR"), ok |-> FALSE]
        ELSE [s |-> clear_active_orders_for_symbol(r.s), ok |-> TRUE]

\* purpose_map.get(reason, "EXIT_UNKNOWN")
ExitPurpose(reason) ==
    CASE reason = "Strategy Signal" -> "EXIT_SIGNAL"
      [] reason = "Manual" -> "EXIT_MANUAL"
      [] reason \in {"Protection Order Failed", "OCO Placement Failed",
                     "OCO Placement Failed API Error", "OCO Calc Failed",
                     "OCO Prep Data Failed", "OCO Qty Adjust Failed",
                     "OCO TickSize Failed", "OCO PriceFilter Failed",
                     "OCO SymbolInfo Failed", "Inconsistent Entry State"} -> "EXIT_PROTECTION"
      [] OTHER -> "EXIT_UNKNOWN"

\* exit_purpose.lower()
Lower(purpose) ==
    CASE purpose = "ENTRY" -> "entry"
      [] purpose = "EXIT_SIGNAL" -> "exit_signal"
      [] purpose = "EXIT_MANUAL" -> "exit_manual"
      [] purpose = "EXIT_PROTECTION" -> "exit_protection"
      [] OTHER -> "exit_unknown"

\* BinanceAPI.get_current_price: the price, or None
get_current_price(s, price) ==
    [s |-> Emit(s, Call("get_current_price", "", price, NoKey, "")), price |-> price]

\* step 8 of _initiate_exit_async: the answer to the sell has arrived
exit_order_answered(s, ok, status, orderId, client_order_id, exit_purpose) ==
    IF ok
    THEN SaveOrder(s, client_order_id, exit_purpose, status, orderId, client_order_id, "SELL")
    ELSE put_event(s, "CRITICAL_ERROR")

exit_orders_cancelled_KeepsPosition(s, quantity_to_close, reason, env) ==
    LET s1 == get_symbol_info(s, env.info)
        adjusted_quantity == adjust_quantity(s1.symbolInfo, FInt(quantity_to_close))
    IN  IF adjusted_quantity = NoneNum \/ adjusted_quantity <= 0
        THEN put_event(s1, "TRADE_ERROR")
        ELSE
    LET p == get_current_price(s1, env.price)
        s2 == p.s
    IN  IF p.price = NoneNum \/ p.price <= 0
        THEN put_event(s2, "CRITICAL_ERROR")
        ELSE IF ~check_min_notional(s2.symbolInfo, adjusted_quantity, p.price)
        THEN put_event(s2, "TRADE_ERROR")
        ELSE
    LET exit_purpose == ExitPurpose(reason)
        client_order_id == generate_client_order_id(s2, Lower(exit_purpose), env.elapsed)
    IN  CHOOSE x \in
            {exit_order_answered(r.s, r.ok, r.status, r.orderId, client_order_id, exit_purpose) :
                r \in {place_order(s2, "SELL", adjusted_quantity, client_order_id, env)}} : TRUE

\* steps 5-8 of _initiate_exit_async, after the open orders were cancelled;
\* with the answer "AWAIT" to the sell the coroutine is left suspended in
\* the call of BinanceAPI.place_order, the order already at the exchange
exit_orders_cancelled(s, quantity_to_close, reason, env) ==
    LET s1 == get_symbol_info(s, env.info)
        adjusted_quantity == adjust_quantity(s1.symbolInfo, FInt(quantity_to_close))
    IN  IF adjusted_quantity = NoneNum \/ adjusted_quantity <= 0
        THEN put_event(delete_open_position(put_event(s1, "TRADE_ERROR")),
                       "POSITION_UPDATE:CLOSED_LOCAL_ONLY")
        ELSE
    LET p == get_current_price(s1, env.price)
        s2 == p.s
    IN  IF p.price = NoneNum \/ p.price <= 0
        THEN put_event(s2, "CRITICAL_ERROR")
        ELSE IF ~check_min_notional(s2.symbolInfo, adjusted_quantity, p.price)
        THEN put_event(delete_open_position(put_event(s2, "TRADE_ERROR")),
                       "POSITION_UPDATE:CLOSED_LOCAL_ONLY")
        ELSE
    LET exit_purpose == ExitPurpose(reason)
        client_order_id == generate_client_order_id(s2, Lower(exit_purpose), env.elapsed)
    IN  CHOOSE x \in
            {IF env.place = "AWAIT"
             THEN [r.s EXCEPT !.exitTask = [call |-> "place_order", reason |-> reason,
                                             quantity |-> adjusted_quantity,
                                             orderId |-> r.orderId,
                                             client_order_id |-> client_order_id]]
             ELSE exit_order_answered(r.s, r.ok, r.status, r.orderId, client_order_id,
                                      exit_purpose) :
                r \in {place_order(s2, "SELL", adjusted_quantity, client_order_id, env)}} : TRUE

\* _initiate_exit_async; with the answer "AWAIT" to the cancellation the
\* coroutine is left suspended in the call of BinanceAPI.cancel_all_orders,
\* the exchange having cancelled the orders
initiate_exit(s0, reason, env) ==
    LET s == Emit(s0, Call("initiate_exit", reason, 0, NoKey, "")) IN
    IF ~s.running THEN s
    ELSE IF ~HasPosition(s) THEN cancel_all_active_orders_safely(s, env).s
    ELSE
    LET quantity_to_close == Abs(get_open_position(s).quantity)
    IN  IF quantity_to_close <= 0
        THEN cancel_all_active_orders_safely(put_event(s, "CRITICAL_ERROR"), env).s
        ELSE IF env.cancel = "AWAIT"
        THEN [cancel_all_orders(s, "OK").s EXCEPT
                 !.exitTask = [call |-> "cancel_all_orders", reason |-> reason,
                               quantity |-> quantity_to_close,
                               orderId |-> 0, client_order_id |-> NoCid]]
        ELSE
    CHOOSE x \in
        {IF ~c.ok THEN c.s ELSE exit_orders_cancelled(c.s, quantity_to_close, reason, env) :
            c \in {cancel_all_active_orders_safely(s, env)}} : TRUE

\* the suspended call returns and the exit flow runs on: after
\* cancel_all_orders the local rows are cleared and steps 5-8 follow, after
\* place_order the answer is taken
resume_exit(s0, env) ==
    LET task == s0.exitTask
        s == [s0 EXCEPT !.exitTask = NoTask]
    IN  IF task.call = "cancel_all_orders"
        THEN exit_orders_cancelled(clear_active_orders_for_symbol(s), task.quantity,
                                   task.reason, env)
        ELSE exit_order_answered(s, env.place = "OK", env.status, task.orderId,
                                 task.client_order_id, ExitPurpose(task.reason))

\* the row _place_oco_order_async writes for one order report
SaveOcoReport(s, report) ==
    LET internal_report_id == IF report.clientOrderId # NoCid THEN report.clientOrderId
                              ELSE OidKey(report.orderId)
        purpose == CASE report.type = "LIMIT_MAKER" -> "TP"
                     [] report.type = "STOP_LOSS_LIMIT" -> "SL"
                     [] OTHER -> "UNKNOWN_OCO_PART"
    IN  SaveOrder(s, internal_report_id, purpose, report.status, report.orderId,
                  report.clientOrderId, "SELL")

OnOcoRejected_ExitFirst(s, env) ==
    put_event(initiate_exit(s, "OCO Placement Failed", env), "CRITICAL_ERROR")

\* the exchange did not take the order list: the position is unprotected
OnOcoRejected(s, env) ==
    initiate_exit(put_event(s, "CRITICAL_ERROR"), "OCO Placement Failed", env)

\* _place_oco_order_async from the call of BinanceAPI.place_oco_order on
oco_order_requested(s1, adjusted_quantity, prices, env) ==
    LET r == place_oco_order(s1, adjusted_quantity, prices, env.oco)
    IN  IF r.ok
        THEN SaveOcoReport(
                 SaveOcoReport(update_open_position_field(r.s, "oco_list_id", r.orderListId),
                               r.orderReports[1]),
                 r.orderReports[2])
        ELSE OnOcoRejected(r.s, env)

\* _place_oco_order_async; with the answer "AWAIT" the coroutine is left
\* suspended in the call of BinanceAPI.place_oco_order, the request not
\* yet sent
place_oco_order_async(s, position_data, env) ==
    IF ~s.running THEN s
    ELSE IF ~(TpBps > 0 /\ SlBps > 0) THEN s
    ELSE IF Abs(position_data.quantity) <= 0 \/ position_data.entry_price[1] <= 0 THEN s
    ELSE
    LET s1 == get_symbol_info(s, env.info)
        info == s1.symbolInfo
    IN  IF ~info.ok THEN s1
        ELSE IF ~info.price_filter THEN s1
        ELSE IF info.tickSize <= 0 THEN s1
        ELSE
    LET prices == OcoPrices(position_data.entry_price, info.tickSize)
        adjusted_quantity == adjust_quantity(info, FInt(Abs(position_data.quantity)))
    IN  IF ~prices.valid THEN put_event(s1, "CRITICAL_ERROR")
        ELSE IF adjusted_quantity = NoneNum \/ adjusted_quantity <= 0 THEN s1
        ELSE IF env.oco = "AWAIT"
        THEN [s1 EXCEPT !.awaiting = [call |-> "place_oco_order",
                                      quantity |-> adjusted_quantity, prices |-> prices]]
        ELSE oco_order_requested(s1, adjusted_quantity, prices, env)

\* ------------------------------------------------- order-update handler
exit_purposes == {"EXIT_SIGNAL", "EXIT_MANUAL", "SL", "TP", "EXIT_PROTECTION", "EXIT_UNKNOWN"}

NoCost == <<>>      \* entry_cost None
OrZero(x) == IF x = NoCost THEN FZero ELSE x
FDivInt(a, k) == Frac(a[1], a[2] * k)

Signed(side, qty) == IF side = "BUY" THEN qty ELSE -qty

\* position_data built from an entry order's event
PositionFromEvent(ev) ==
    [symbol |-> Symbol,
     quantity |-> Signed(ev.S, ev.z),
     entry_price |-> ev.ap,
     entry_cost |-> IF ev.ap[1] # 0 /\ ev.z # 0 THEN FMulInt(ev.ap, ev.z) ELSE NoCost,
     entry_commission |-> ev.n,
     entry_commission_asset |-> ev.N,
     oco_list_id |-> NoList]

\* trade_log_entry
TradeLogEntry(ev, purpose) ==
    [order_id_binance |-> ev.i, side |-> ev.S, status |-> ev.X, price |-> ev.L,
     quantity |-> ev.l, purpose |-> purpose, pnl |-> NoPnl]

OnEntryFilled_Overwrites(s, ev, env) ==
    IF HasPosition(s)
    THEN put_event(set_open_position(s, PositionFromEvent(ev)), "CRITICAL_ERROR")
    ELSE LET position_data == PositionFromEvent(ev)
             s1 == put_event(put_event(set_open_position(s, position_data),
                                       "POSITION_UPDATE:OPEN"), "NOTIFICATION")
         IN  place_oco_order_async(s1, position_data, env)

\* status FILLED, purpose ENTRY
OnEntryFilled(s, ev, env) ==
    IF HasPosition(s) THEN put_event(s, "CRITICAL_ERROR")
    ELSE LET position_data == PositionFromEvent(ev)
             s1 == put_event(put_event(set_open_position(s, position_data),
                                       "POSITION_UPDATE:OPEN"), "NOTIFICATION")
         IN  place_oco_order_async(s1, position_data, env)

\* status FILLED, purpose in exit_purposes
OnExitFilled(s, ev, trade_id_for_pnl) ==
    IF ~HasPosition(s) THEN s
    ELSE LET r == calculate_trade_pnl(get_open_position(s), ev.ap, ev.z, ev.n, ev.N)
             pnl == IF r = NoPnl THEN FZero ELSE r[1]
             total_commission_quote == IF r = NoPnl THEN FZero ELSE r[2]
             s1 == IF trade_id_for_pnl # 0 THEN update_trade_pnl(s, trade_id_for_pnl, pnl) ELSE s
             s2 == put_event(put_event(delete_open_position(s1),
                                       "POSITION_UPDATE:CLOSED"), "NOTIFICATION")
         IN  update_session_stats(s2, pnl, total_commission_quote)

\* status PARTIALLY_FILLED, purpose ENTRY
OnEntryPartial(s, ev) ==
    IF HasPosition(s)
    THEN IF ev.l <= 0 \/ ev.L <= 0 THEN s
         ELSE LET current_pos == get_open_position(s)
                  new_quantity == current_pos.quantity + Signed(ev.S, ev.l)
                  new_total_cost == FAdd(OrZero(current_pos.entry_cost), FInt(ev.L * ev.l))
                  new_avg_entry_price == IF new_quantity # 0
                                         THEN FDivInt(new_total_cost, Abs(new_quantity))
                                         ELSE FZero
                  new_commission == current_pos.entry_commission + ev.n
                  s1 == update_open_position_field(s, "quantity", new_quantity)
                  s2 == update_open_position_field(s1, "entry_price", new_avg_entry_price)
                  s3 == update_open_position_field(s2, "entry_cost", new_total_cost)
                  s4 == update_open_position_field(s3, "entry_commission", new_commission)
                  s5 == update_open_position_field(s4, "entry_commission_asset", ev.N)
              IN  put_event(s5, "POSITION_UPDATE:PARTIAL_ENTRY")
    ELSE put_event(set_open_position(s, PositionFromEvent(ev)), "POSITION_UPDATE:OPEN")

OnExitPartial_Stats(s, ev) ==
    IF ~HasPosition(s) THEN s
    ELSE IF ev.l <= 0 THEN s
    ELSE LET change_qty == IF ev.S = "SELL" THEN -ev.l ELSE ev.l
             new_pos_qty == get_open_position(s).quantity + change_qty
         IN  update_session_stats(
                 put_event(update_open_position_field(s, "quantity", new_pos_qty),
                           "POSITION_UPDATE:PARTIAL_EXIT"),
                 FZero, FZero)

\* status PARTIALLY_FILLED, purpose in exit_purposes
OnExitPartial(s, ev) ==
    IF ~HasPosition(s) THEN s
    ELSE IF ev.l <= 0 THEN s
    ELSE LET change_qty == IF ev.S = "SELL" THEN -ev.l ELSE ev.l
             new_pos_qty == get_open_position(s).quantity + change_qty
         IN  put_event(update_open_position_field(s, "quantity", new_pos_qty),
                       "POSITION_UPDATE:PARTIAL_EXIT")

OnProtectionFailed_Twice(s, env) ==
    initiate_exit(initiate_exit(put_event(s, "CRITICAL_ERROR"),
                                "Protection Order Failed", env),
                  "Protection Order Failed", env)

\* status CANCELED, REJECTED or EXPIRED of a protective order while the
\* position is open
OnProtectionFailed(s, env) ==
    initiate_exit(put_event(s, "CRITICAL_ERROR"), "Protection Order Failed", env)

\* _handle_order_update_async
handle_order_update(s, ev, env) ==
    IF ~s.running THEN s
    ELSE IF InternalIdOf(ev) = NoKey THEN s
    ELSE
    LET internal_id == InternalIdOf(ev)
        purpose == IF HasActiveOrder(s, internal_id)
                   THEN get_active_order(s, internal_id).purpose ELSE "UNKNOWN"
        s0 == Emit(s, Handle(ev, internal_id, purpose))
        trade_occurred == ev.l > 0 /\ ev.X \in {"FILLED", "PARTIALLY_FILLED"}
        s1 == IF trade_occurred
              THEN put_event(add_trade_history_entry(s0, TradeLogEntry(ev, purpose)),
                             "TRADE_UPDATE")
              ELSE s0
        trade_id_for_pnl == IF trade_occurred THEN LastTradeId(s1) ELSE 0
    IN  CASE ev.X = "FILLED" ->
               LET s2 == remove_active_order(s1, internal_id)
               IN  IF purpose = "ENTRY" THEN OnEntryFilled(s2, ev, env)
                   ELSE IF purpose \in exit_purposes THEN OnExitFilled(s2, ev, trade_id_for_pnl)
                   ELSE s2
          [] ev.X \in {"CANCELED", "REJECTED", "EXPIRED"} ->
               LET s2 == put_event(remove_active_order(s1, internal_id),
                                   IF ev.X = "CANCELED" THEN "WARNING" ELSE "ERROR")
               IN  IF purpose \in {"TP", "SL"} /\ HasPosition(s2)
                   THEN OnProtectionFailed(s2, env)
                   ELSE s2
          [] ev.X = "PARTIALLY_FILLED" ->
               LET s2 == SaveOrder(s1, internal_id, purpose, ev.X, ev.i, ev.c, ev.S)
                   s3 == IF purpose = "ENTRY" THEN OnEntryPartial(s2, ev)
                         ELSE IF purpose \in exit_purposes THEN OnExitPartial(s2, ev)
                         ELSE s2
               IN  put_event(s3, "NOTIFICATION")
          [] OTHER -> SaveOrder(s1, internal_id, purpose, ev.X, ev.i, ev.c, ev.S)

\* _initiate_entry_async
initiate_entry(s0, env) ==
    LET s == Emit(s0, Call("initiate_entry", "", 0, NoKey, "")) IN
    IF ~s.running THEN s
    ELSE IF s.quoteFree <= MinBalance THEN put_event(s, "TRADE_REJECTED")
    ELSE
    LET p == get_current_price(s, env.price) IN
    IF p.price = NoneNum \/ p.price <= 0 THEN put_event(p.s, "ERROR")
    ELSE
    LET byPercent == Frac(s.quoteFree * PositionSizePct, 100)
        quote_amount_to_invest == IF FLess(FInt(s.quoteFree), byPercent)
                                  THEN FInt(s.quoteFree) ELSE byPercent
        quantity_gross == FDivInt(quote_amount_to_invest, p.price)
        s1 == get_symbol_info(p.s, env.info)
        adjusted_quantity == adjust_quantity(s1.symbolInfo, quantity_gross)
    IN  IF adjusted_quantity = NoneNum \/ adjusted_quantity <= 0
        THEN put_event(s1, "TRADE_REJECTED")
        ELSE IF ~check_min_notional(s1.symbolInfo, adjusted_quantity, p.price)
        THEN put_event(s1, "TRADE_REJECTED")
        ELSE
    LET client_order_id == generate_client_order_id(s1, Lower("ENTRY"), env.elapsed)
        r == place_order(s1, "BUY", adjusted_quantity, client_order_id, env)
    IN  IF r.ok
        THEN SaveOrder(r.s, client_order_id, "ENTRY", r.status, r.orderId,
                       client_order_id, "BUY")
        ELSE put_event(r.s, "TRADE_ERROR")

active_exit_purposes == {"TP", "SL", "EXIT_MANUAL", "EXIT_SIGNAL", "EXIT_PROTECTION", "EXIT_UNKNOWN"}
active_statuses == {"NEW", "PARTIALLY_FILLED"}

PendingEntry(s) ==
    {k \in DOMAIN s.orders : s.orders[k].status \in active_statuses /\ s.orders[k].purpose = "ENTRY"}
PendingExit(s) ==
    {k \in DOMAIN s.orders : s.orders[k].status \in active_statuses
                             /\ s.orders[k].purpose \in active_exit_purposes}

OrdersNamed(s, coid) == {i \in OpenOrders(s) : s.exch[i].c = coid}

process_signal_AlwaysEnters(s0, signal, env) ==
    initiate_entry(Emit(s0, Call("signal", signal, 0, NoKey, "")), env)

process_signal_AlwaysExits(s0, signal, env) ==
    initiate_exit(Emit(s0, Call("signal", signal, 0, NoKey, "")), "Strategy Signal", env)

\* _process_signal_async
process_signal(s0, signal, env) ==
    LET s == Emit(s0, Call("signal", signal, 0, NoKey, "")) IN
    IF ~s.running THEN s
    ELSE IF signal = "BUY"
    THEN IF HasPosition(s) \/ PendingEntry(s) # {} \/ PendingExit(s) # {} THEN s
         ELSE initiate_entry(s, env)
    ELSE IF signal = "CLOSE"
    THEN IF ~HasPosition(s) \/ PendingExit(s) # {} THEN s
         ELSE IF PendingEntry(s) # {}
         THEN LET k == CHOOSE x \in PendingEntry(s) : TRUE
                  order_to_cancel == s.orders[k]
                  ids == IF FirstToken(order_to_cancel.client_order_id[1]) = "entry"
                         THEN OrdersNamed(s, order_to_cancel.client_order_id)
                         ELSE {order_to_cancel.order_id_binance}
                  r == cancel_order(s, ids, env.cancelOne)
              IN  IF r.ok
                  THEN initiate_exit(remove_active_order(r.s, order_to_cancel.client_order_id),
                                     "Strategy Signal After Entry Cancel", env)
                  ELSE put_event(r.s, "CRITICAL_ERROR")
         ELSE initiate_exit(s, "Strategy Signal", env)
    ELSE s

\* _process_command_async, command CLOSE_POSITION
close_position_command(s, env) ==
    IF HasPosition(s) THEN initiate_exit(s, "Manual", env) ELSE put_event(s, "INFO")

check_and_restore_oco_QueryFirst(s00, env) ==
    get_open_orders(Emit(s00, Call("check_and_restore_oco", "", 0, NoKey, "")), env.open).s

\* _check_and_restore_oco_async; what it found on the exchange for the
\* recorded list is kept among the effects
check_and_restore_oco(s00, env) ==
    LET s0 == Emit(s00, Call("check_and_restore_oco", "", 0, NoKey, "")) IN
    IF ~HasPosition(s0) THEN s0
    ELSE
    LET position == get_open_position(s0)
        saved == position.oco_list_id
        api == get_open_orders(s0, env.open)
        found == {i \in api.orders : s0.exch[i].g = saved}
        s == Emit(api.s, Call("oco_restore", IF saved # NoList THEN "SAVED" ELSE "NO_ID",
                              Cardinality(found), NoKey, ""))
    IN  IF ~api.ok THEN api.s
        ELSE IF saved # NoList
        THEN IF Cardinality(found) = 2 THEN s
             ELSE LET c == IF Cardinality(found) = 1
                           THEN LET i == CHOOSE x \in found : TRUE
                                    r == cancel_order(s, {i}, env.cancelOne)
                                IN  [s |-> IF r.ok THEN remove_active_order(r.s, s.exch[i].c) ELSE r.s,
                                     ok |-> r.ok]
                           ELSE [s |-> s, ok |-> TRUE]
                  IN  IF ~c.ok THEN c.s
                      ELSE place_oco_order_async(
                               update_open_position_field(c.s, "oco_list_id", NoList),
                               position, env)
        ELSE IF \E i \in api.orders : s.exch[i].S = "SELL"
        THEN LET c == cancel_all_active_orders_safely(s, env)
             IN  IF ~c.ok THEN c.s ELSE place_oco_order_async(c.s, position, env)
        ELSE place_oco_order_async(s, position, env)

\* ------------------------------------------------- inputs
PriceSet == {1000}                          \* prices market orders trade at
PriceFeed == {NoneNum, 1000}                \* get_current_price: None or a price
BalanceSet == {20000}                       \* free quote balance the exchange reports
CommSet == {<<1, QuoteAsset>>}              \* commission of one trade
InfoSet ==
    {NoInfo,
     [ok |-> TRUE, price_filter |-> TRUE, tickSize |-> 1],
     [ok |-> TRUE, price_filter |-> TRUE, tickSize |-> 20],
     [ok |-> TRUE, price_filter |-> FALSE, tickSize |-> 0]}

\* how the exchange trades a market order: "first" lots at price L1 and
\* the rest at price L2, or all of it at L2 when "first" is 0 or no less
\* than the order
PlanSet ==
    {[first |-> 0, L1 |-> L2, L2 |-> L2, comm |-> comm] : L2 \in PriceSet, comm \in CommSet}
    \cup [first : {1}, L1 : PriceSet, L2 : PriceSet, comm : CommSet]

\* what the world answers to the calls one handler makes: the exchange's
\* responses, how a market order trades, and the time on the clock
Env(place, status, fills, oco, cancel, cancelOne, open, price, info, elapsed) ==
    [place |-> place, status |-> status, fills |-> fills, oco |-> oco, cancel |-> cancel,
     cancelOne |-> cancelOne, open |-> open, price |-> price, info |-> info,
     elapsed |-> elapsed]

NoPlan == [first |-> 0, L1 |-> 0, L2 |-> 0, comm |-> <<0, "">>]

Quiet == Env("NONE", "NEW", NoPlan, "NONE", "FAIL", "FAIL", "FAIL", NoneNum, NoInfo, 1)

\* a cached symbol info is not requested again
Fetchable(s) == IF s.symbolInfo.ok THEN {s.symbolInfo} ELSE InfoSet

\* answers to place_order
PlaceSet ==
    {[place |-> "NONE", status |-> "NEW", fills |-> NoPlan]}
    \cup {[place |-> "LOST", status |-> "NEW", fills |-> f] : f \in PlanSet}
    \cup {[place |-> "OK", status |-> st, fills |-> f] : st \in {"NEW", "FILLED"}, f \in PlanSet}

\* Answers to the calls a flow makes.  A call the flow does not reach gets
\* no answer of its own.
PlaceEnv(s) ==
    {[Quiet EXCEPT !.price = pr, !.info = i, !.place = p.place, !.status = p.status,
                   !.fills = p.fills] :
        pr \in PriceFeed \ {NoneNum}, i \in Fetchable(s), p \in PlaceSet}
    \cup {[Quiet EXCEPT !.info = i] : i \in Fetchable(s)}

\* the entry flow
EntryEnv(s) == IF s.quoteFree <= MinBalance THEN {Quiet} ELSE PlaceEnv(s)

\* the exit flow
ExitEnv(s) ==
    IF ~HasPosition(s) THEN {Quiet, [Quiet EXCEPT !.cancel = "OK"]}
    ELSE {Quiet} \cup {[x EXCEPT !.cancel = "OK"] : x \in PlaceEnv(s)}

\* the order-update handler for event ev
OrderEnv(s, ev) ==
    LET internal_id == InternalIdOf(ev)
        purpose == IF HasActiveOrder(s, internal_id)
                   THEN get_active_order(s, internal_id).purpose ELSE "UNKNOWN"
    IN  IF ev.X = "FILLED" /\ purpose = "ENTRY" /\ ~HasPosition(s)
        THEN {[Quiet EXCEPT !.oco = o, !.info = i] :
                 o \in {"OK_CID", "OK_NOCID"}, i \in Fetchable(s)}
             \cup {Quiet}
             \cup {[x EXCEPT !.cancel = "OK"] : x \in PlaceEnv(s)}
        ELSE IF ev.X \in {"CANCELED", "REJECTED", "EXPIRED"} /\ purpose \in {"TP", "SL"}
        THEN ExitEnv(s)
        ELSE {Quiet}

\* signal processing
SignalEnv(s, signal) ==
    IF signal = "BUY"
    THEN IF HasPosition(s) \/ PendingEntry(s) # {} \/ PendingExit(s) # {} THEN {Quiet}
         ELSE EntryEnv(s)
    ELSE IF ~HasPosition(s) \/ PendingExit(s) # {} THEN {Quiet}
    ELSE IF PendingEntry(s) # {}
    THEN {Quiet} \cup {[x EXCEPT !.cancelOne = "OK"] : x \in ExitEnv(s)}
    ELSE ExitEnv(s)

\* the command CLOSE_POSITION
CommandEnv(s) == IF HasPosition(s) THEN ExitEnv(s) ELSE {Quiet}

\* answers to the calls of the recovery routine
StartEnv(s) ==
    IF s.running \/ ~s.initialized \/ ~HasPosition(s) THEN {Quiet}
    ELSE {[Quiet EXCEPT !.cancel = c, !.cancelOne = c1, !.open = o] :
             c \in {"OK", "FAIL"}, c1 \in {"OK", "FAIL"}, o \in {"OK", "FAIL"}}

\* ------------------------------------------------- the state machine
Init ==
    /\ running = FALSE
    /\ initialized = FALSE
    /\ wsHandler = FALSE
    /\ lock = "free"
    /\ positions = {}
    /\ orders = EmptyMap
    /\ history = <<>>
    /\ stats = reset_session_stats
    /\ symbolInfo = NoInfo
    /\ quoteFree = 0
    /\ balances = EmptyMap
    /\ exch = EmptyMap
    /\ nextOrderId = 1
    /\ nextListId = 1
    /\ wsQueue = <<>>
    /\ awaiting = NoHandler
    /\ exitTask = NoTask
    /\ now_ms = 0
    /\ replays = 0
    /\ out = <<>>

Commit(s) ==
    /\ running' = s.running
    /\ initialized' = s.initialized
    /\ wsHandler' = s.wsHandler
    /\ lock' = s.lock
    /\ positions' = s.positions
    /\ orders' = s.orders
    /\ history' = s.history
    /\ stats' = s.stats
    /\ symbolInfo' = s.symbolInfo
    /\ quoteFree' = s.quoteFree
    /\ balances' = s.balances
    /\ exch' = s.exch
    /\ nextOrderId' = s.nextOrderId
    /\ nextListId' = s.nextListId
    /\ wsQueue' = s.wsQueue
    /\ awaiting' = s.awaiting
    /\ exitTask' = s.exitTask
    /\ now_ms' = s.now_ms
    /\ replays' = s.replays
    /\ out' = s.out

WithinBoundsOf(s, accepted) ==
    /\ s.nextOrderId <= accepted + 1
    /\ Len(s.wsQueue) <= MaxQueue
    /\ Len(s.history) <= MaxHistory

WithinBounds(s) == WithinBoundsOf(s, MaxOrders)

\* a step to state s0 that the exchange accepts "accepted" orders for
StepWithin(s0, accepted) == \E s \in {s0} : WithinBoundsOf(s, accepted) /\ Commit(s)

Step(s) == StepWithin(s, MaxOrders)

\* initialize(): settings are loaded, which empties the symbol-info cache,
\* the symbol info is requested once, the stream handler is created and the
\* command processor thread is started
Initialize ==
    /\ lock = "free"
    /\ ~initialized
    /\ \E fetched \in InfoSet :
          Step([Cur EXCEPT !.initialized = TRUE, !.wsHandler = TRUE, !.symbolInfo = fetched])

\* stop().  __init__ binds the name _stop_command_processor to a flag, so
\* the call self._stop_command_processor() inside stop() raises TypeError:
\* a running core clears _is_running, stops the stream handler (what the
\* stream still held is never read) and drops it, and then raises before the
\* stores are closed, _initialized is cleared or STATUS_UPDATE is put; a
\* core that is not running raises when the command processor thread is
\* alive, which it is once initialize() has run.  Stopping the stream
\* handler cancels its task and with it a handler suspended in a call.
stop(s) ==
    IF ~s.running THEN [s |-> s, raised |-> s.initialized]
    ELSE [s |-> [s EXCEPT !.running = FALSE, !.wsHandler = FALSE, !.wsQueue = <<>>,
                          !.awaiting = NoHandler],
          raised |-> TRUE]

\* start(): holds the lock for its whole body; when the core is not
\* initialized it awaits initialize(), which waits for the same lock.
\* The recovery routine runs before the listen key is requested and the
\* streams (user data and klines) are started; "stream" is how that went.
\* When it failed, stop() is awaited before ERROR is put, and raises.
start(s, env, stream) ==
    IF s.running THEN [s |-> put_event(s, "INFO"), raised |-> FALSE]
    ELSE IF ~s.initialized
    THEN [s |-> [put_event(s, "ERROR") EXCEPT !.lock = "start"], raised |-> FALSE]
    ELSE IF ~s.wsHandler THEN [s |-> put_event(s, "ERROR"), raised |-> FALSE]
    ELSE CHOOSE x \in
            {IF stream = "OK"
             THEN [s |-> put_event([s2 EXCEPT !.running = TRUE], "STATUS_UPDATE"),
                   raised |-> FALSE]
             ELSE CHOOSE y \in
                     {IF r.raised THEN r ELSE [s |-> put_event(r.s, "ERROR"), raised |-> FALSE] :
                         r \in {stop(s2)}} : TRUE :
                s2 \in {Emit(check_and_restore_oco([s EXCEPT !.stats = reset_session_stats], env),
                             Call("start_user_data_stream", "", 0, NoKey, stream))}} : TRUE

\* _load_bot_settings and _load_strategy reread the configuration; "loaded"
\* is whether they returned
reload_settings(s, loaded) ==
    IF loaded = "OK"
    THEN put_event(put_event([s EXCEPT !.symbolInfo = NoInfo], "INFO"), "STATUS_RESPONSE")
    ELSE put_event(s, "ERROR")

Commands ==
    {"START", "STOP", "CLOSE_POSITION", "RELOAD_SETTINGS", "GET_STATUS", "GET_BALANCE",
     "GET_POSITION", "GET_HISTORY", "GET_STATS"}

\* the answer to a query command
Response(command_type) ==
    CASE command_type = "GET_STATUS" -> "STATUS_RESPONSE"
      [] command_type = "GET_BALANCE" -> "BALANCE_RESPONSE"
      [] command_type = "GET_POSITION" -> "POSITION_RESPONSE"
      [] command_type = "GET_HISTORY" -> "HISTORY_RESPONSE"
      [] command_type = "GET_STATS" -> "STATS_RESPONSE"

\* an exception that leaves the command's branch is answered COMMAND_ERROR
Answered(r) == IF r.raised THEN put_event(r.s, "COMMAND_ERROR") ELSE r.s

\* _process_command_async; "outcome" is how the stream start (START) or the
\* settings load (RELOAD_SETTINGS) went
process_command(s0, command_type, env, outcome) ==
    LET s == Emit(s0, Call("command", command_type, 0, NoKey, "")) IN
    CASE command_type = "START" -> Answered(start(s, env, outcome))
      [] command_type = "STOP" -> Answered(stop(s))
      [] command_type \in {"GET_STATUS", "GET_BALANCE", "GET_POSITION", "GET_HISTORY", "GET_STATS"}
           -> put_event(s, Response(command_type))
      [] command_type = "CLOSE_POSITION" -> close_position_command(s, env)
      [] command_type = "RELOAD_SETTINGS" -> reload_settings(s, outcome)
      [] OTHER -> put_event(s, "ERROR")

\* the operator starts a core that is not running
Start ==
    /\ ~running
    /\ lock = "free"
    /\ \E env \in StartEnv(Cur), stream \in {"OK", "FAIL"} :
          StepWithin(process_command(Cur, "START", env, stream), MaxOrders + MaxRecoveryOrders)

Stop ==
    /\ running
    /\ lock = "free"
    /\ Step(process_command(Cur, "STOP", Quiet, "OK"))

\* the process ends and a new one is constructed over the same stores,
\* with the same account on the exchange
new_process(s) ==
    [s EXCEPT !.running = FALSE, !.initialized = FALSE, !.wsHandler = FALSE,
              !.lock = "free", !.stats = reset_session_stats, !.symbolInfo = NoInfo,
              !.quoteFree = 0, !.balances = EmptyMap,
              !.wsQueue = <<>>, !.awaiting = NoHandler, !.exitTask = NoTask, !.out = <<>>]

NewProcess == Step(new_process(Cur))

\* _handle_balance_update_async
handle_balance_update(s, free) ==
    IF ~s.running THEN s
    ELSE put_event(update_balances([s EXCEPT !.quoteFree = free],
                                   MapPut(EmptyMap, QuoteAsset, [free |-> free, locked |-> 0])),
                   "BALANCE_UPDATE")

\* the account's free quote balance has changed
BalanceUpdate ==
    /\ running
    /\ \E free \in BalanceSet \ {quoteFree} : Step(handle_balance_update(Cur, free))

\* a closed candle for which the strategy returns a signal
Signal ==
    /\ running
    /\ \E signal \in {"BUY", "CLOSE"} : \E env \in SignalEnv(Cur, signal) : Step(process_signal(Cur, signal, env))

\* the operator's CLOSE_POSITION
ClosePositionCommand ==
    /\ running
    /\ \E env \in CommandEnv(Cur) : Step(process_command(Cur, "CLOSE_POSITION", env, "OK"))

\* the stream reader takes the next executionReport and awaits the handler
DeliverOrderUpdate ==
    /\ wsQueue # <<>>
    /\ \E env \in OrderEnv(Cur, Head(wsQueue)) :
          Step(handle_order_update([Cur EXCEPT !.wsQueue = Tail(@)], Head(wsQueue), env))

\* the same executionReport reaches the handler once more
ReplayOrderUpdate ==
    /\ wsQueue # <<>>
    /\ replays < MaxReplays
    /\ \E env \in OrderEnv(Cur, Head(wsQueue)) :
          Step(handle_order_update([Cur EXCEPT !.replays = @ + 1], Head(wsQueue), env))

\* the other resting orders of order i's list
Siblings(s, i) ==
    {j \in OpenOrders(s) : j # i /\ s.exch[i].g # NoList /\ s.exch[j].g = s.exch[i].g}

\* the exchange trades l lots of the resting order i at its price; a trade
\* on one leg of a list expires the other leg, reported before or after the
\* trade
exchange_fill(s, i, l, comm, siblingFirst) ==
    LET ord == Traded(s.exch[i], l, s.exch[i].p)
        report == ExecutionReport(i, ord, l, ord.p, comm[1], comm[2])
        s1 == [s EXCEPT !.exch = IF ord.X = "FILLED" THEN MapDel(@, i) ELSE MapPut(@, i, ord)]
        sib == Siblings(s, i)
    IN  IF siblingFirst
        THEN Publish(ExEndAll(s1, sib, "EXPIRED"), report)
        ELSE ExEndAll(Publish(s1, report), sib, "EXPIRED")

ExchangeFill ==
    \E i \in OpenOrders(Cur) :
      \E l \in 1..(exch[i].q - exch[i].z), comm \in CommSet, siblingFirst \in BOOLEAN :
          /\ siblingFirst => Siblings(Cur, i) # {}
          /\ Step(exchange_fill(Cur, i, l, comm, siblingFirst))

\* a resting order is cancelled from another client of the account; a list
\* ends as a whole
exchange_cancel(s, i, status) ==
    ExEndAll(s, {i} \cup Siblings(s, i), status)

ExchangeCancel ==
    \E i \in OpenOrders(Cur) : Step(exchange_cancel(Cur, i, "CANCELED"))

Next ==
    \/ Initialize
    \/ Start
    \/ BalanceUpdate
    \/ Signal
    \/ DeliverOrderUpdate
    \/ ReplayOrderUpdate
    \/ ExchangeFill
    \/ ExchangeCancel

Spec == Init /\ [][Next]_vars

\* the same machine with the STOP command and with the process ended and
\* run again
SpecRestart == Init /\ [][Next \/ Stop \/ NewProcess]_vars

\* ------------------------------------------------- what the last step did
\* the step ran the order-update handler on an event
Handled == out # <<>> /\ out[1].t = "handle"
HandledEvent == out[1].ev
HandledPurpose == out[1].r

Emitted(type) == \E k \in DOMAIN out : out[k].t = "event" /\ out[k].a = type
Calls(name) == {k \in DOMAIN out : out[k].t = name}
MarketSells == {k \in Calls("place_order") : out[k].a = "SELL"}
ExitInitiated == Calls("initiate_exit") # {}
OcoPlaced == \E k \in Calls("place_oco_order") : out[k].r \in {"OK_CID", "OK_NOCID"}
OcoRejected == \E k \in Calls("place_oco_order") : out[k].r = "NONE"

Tracked(purpose) == \E k \in DOMAIN orders : orders[k].purpose = purpose
BracketTracked == Tracked("TP") /\ Tracked("SL")

\* the handler took a FILLED event of an entry order and opened the position
NewlyOpened ==
    /\ Handled
    /\ HandledEvent.X = "FILLED"
    /\ HandledPurpose = "ENTRY"
    /\ Emitted("POSITION_UPDATE:OPEN")

\* ------------------------------------------------- C1
\* C1: whenever a Position is open after the order-update handler has
\* processed an event, both bracket legs (TP and SL) are tracked as active
\* orders or an emergency exit was initiated while that event was processed
C1_ProtectedAfterEvent ==
    (Handled /\ HasPosition(Cur)) => (BracketTracked \/ ExitInitiated)

\* C1 fails for an entry that fills through partial fills: the position
\* opened by the PARTIALLY_FILLED event is still there after the FILLED
\* event, smaller than what the order bought, with no bracket and no exit
C1_PartialThenFilledUnprotected ==
    /\ Handled
    /\ HandledEvent.X = "FILLED"
    /\ HandledPurpose = "ENTRY"
    /\ HasPosition(Cur)
    /\ get_open_position(Cur).quantity < HandledEvent.z
    /\ ~BracketTracked
    /\ ~ExitInitiated

\* ------------------------------------------------- C2
\* C2: when the FILLED event of an entry opens the position and the bracket
\* is not placed, whatever step of the placement failed, an emergency exit
\* is initiated while that event is processed
C2_FailedBracketExits ==
    (NewlyOpened /\ ~OcoPlaced) => ExitInitiated

\* C2 fails when the computed prices do not pass validation: CRITICAL_ERROR
\* is emitted, the exchange is never asked, and no exit is initiated
C2_InvalidPricesNoExit ==
    /\ NewlyOpened
    /\ Emitted("CRITICAL_ERROR")
    /\ Calls("place_oco_order") = {}
    /\ ~ExitInitiated
    /\ HasPosition(Cur)

\* ------------------------------------------------- C3
\* the step emitted CRITICAL_ERROR and afterwards sent exactly one market
\* sell, of qty lots
CriticalThenOneSell(qty) ==
    /\ Cardinality(MarketSells) = 1
    /\ \E k \in MarketSells :
          /\ out[k].q = qty
          /\ \E j \in 1..(k - 1) : out[j].t = "event" /\ out[j].a = "CRITICAL_ERROR"

\* the exit flow's own steps before the sell went through: the open orders
\* were cancelled, a price was returned, and the position at that price
\* meets the minimum notional
ExitCleared(qty) ==
    /\ \E k \in Calls("cancel_all_orders") : out[k].r = "OK"
    /\ \E k \in Calls("get_current_price") :
          out[k].q > 0 /\ check_min_notional(symbolInfo, qty, out[k].q)

ProtectionLost ==
    /\ Handled
    /\ HandledEvent.X \in {"CANCELED", "REJECTED", "EXPIRED"}
    /\ HandledPurpose \in {"TP", "SL"}
    /\ ExitInitiated

\* the quantity of the open position
PositionQty == Abs(get_open_position(Cur).quantity)

C5_OnePositionNonZero ==
    /\ Cardinality({p \in positions : p.symbol = Symbol}) <= 1
    /\ \A p \in positions : p.quantity # 0

\* C5 fails after partial exit fills that add up to the whole position: the
\* handler has processed a PARTIALLY_FILLED event of an exit order and the
\* Position row is left with quantity zero
C5_ZeroQuantityAfterPartialExits ==
    /\ Handled
    /\ HandledEvent.X = "PARTIALLY_FILLED"
    /\ HandledPurpose \in exit_purposes
    /\ \E p \in positions : p.quantity = 0

\* ------------------------------------------------- C6
\* C6: in the entry flow a row with purpose ENTRY and status PENDING_SUBMIT
\* is written under the generated id before the market buy is sent
C6_PendingRowBeforeBuy ==
    \A k \in Calls("place_order") :
        out[k].a = "BUY" =>
            \E j \in 1..(k - 1) :
                /\ out[j].t = "row"
                /\ out[j].a = "ENTRY"
                /\ out[j].r = "PENDING_SUBMIT"
                /\ out[j].id = out[k].id

\* C6 fails: the buy was sent and accepted with no row written before it,
\* and the only row is written afterwards with the status of the response
C6_BuySentBeforeRow ==
    \E k \in Calls("place_order") :
        /\ out[k].a = "BUY"
        /\ out[k].r = "OK"
        /\ \A j \in 1..(k - 1) : out[j].t # "row"
        /\ \E j \in (k + 1)..Len(out) :
              out[j].t = "row" /\ out[j].id = out[k].id /\ out[j].r # "PENDING_SUBMIT"

\* ------------------------------------------------- C7
\* The handler took an event of a buy the entry flow named, before anything
\* else could have touched the order's row: its NEW report, or its FILLED
\* report when it filled in one trade; no event has been delivered twice.
EntryEventHandled ==
    /\ Handled
    /\ replays = 0
    /\ HandledEvent.S = "BUY"
    /\ HandledEvent.c # NoCid
    /\ HandledEvent.c[1] = "entry"
    /\ \/ HandledEvent.X = "NEW"
       \/ HandledEvent.X = "FILLED" /\ HandledEvent.l = HandledEvent.q

\* C7: an event of an entry order is resolved to purpose ENTRY, and its
\* FILLED event leaves the Position created, also when the placement call
\* had returned nothing although the order reached the exchange
C7_EntryEventResolved ==
    EntryEventHandled =>
        /\ HandledPurpose = "ENTRY"
        /\ HandledEvent.X = "FILLED" => HasPosition(Cur)

\* C7 fails: the FILLED event of the entry is resolved to UNKNOWN; a trade
\* is logged, but no Position is created and no bracket is placed
C7_LostEntryFillIgnored ==
    /\ EntryEventHandled
    /\ HandledEvent.X = "FILLED"
    /\ HandledPurpose = "UNKNOWN"
    /\ ~HasPosition(Cur)
    /\ Calls("place_oco_order") = {}
    /\ Len(history) > 0

\* ------------------------------------------------- C8
\* Scenario A: the first order was a market buy that filled with one FILLED
\* event, the bracket placed for it succeeded (orders 2 and 3, both legs
\* tracked), nothing else was ordered, no event was delivered twice, and
\* the handler has now taken the FILLED event of the take-profit leg
ScenarioA ==
    /\ Handled
    /\ replays = 0
    /\ HandledEvent.X = "FILLED"
    /\ HandledEvent.o = "LIMIT_MAKER"
    /\ HandledEvent.l = HandledEvent.q
    /\ HandledEvent.i = nextOrderId - 2
    /\ Len(history) >= 1
    /\ history[1].order_id_binance = HandledEvent.i - 1
    /\ history[1].status = "FILLED"
    /\ history[1].side = "BUY"
    /\ Tracked("SL")
    /\ Tracked("TP") \/ HandledPurpose = "TP"

\* C8: Scenario A ends with the Position deleted, exactly 2 trade-history
\* entries and winning_trades = 1
C8_ScenarioA ==
    ScenarioA =>
        /\ ~HasPosition(Cur)
        /\ Len(history) = 2
        /\ stats.winning_trades = 1

\* C8 fails: the take-profit leg is tracked under the clientOrderId the
\* exchange gave it, its FILLED event is resolved to UNKNOWN, the Position
\* stays and no trade is counted
C8_TakeProfitFillIgnored ==
    /\ ScenarioA
    /\ HandledPurpose = "UNKNOWN"
    /\ HandledEvent.c \in DOMAIN orders
    /\ orders[HandledEvent.c].purpose = "TP"
    /\ HasPosition(Cur)
    /\ stats.winning_trades = 0

\* ------------------------------------------------- C9
\* C9: an order has at most one FILLED entry in the trade history, so that
\* a FILLED event delivered again for an order that is already FILLED
\* appends nothing
C9_NoSecondFilledEntry ==
    \A j, k \in DOMAIN history :
        (j < k /\ history[j].status = "FILLED" /\ history[k].status = "FILLED")
            => history[j].order_id_binance # history[k].order_id_binance

\* C9 fails: the handler took a FILLED event of an order no longer tracked
\* and appended a second FILLED entry for that order
C9_DuplicateFilledAppended ==
    /\ Handled
    /\ HandledEvent.X = "FILLED"
    /\ HandledPurpose = "UNKNOWN"
    /\ Emitted("TRADE_UPDATE")
    /\ \E j \in 1..(Len(history) - 1) :
          /\ history[j].status = "FILLED"
          /\ history[j].order_id_binance = HandledEvent.i
          /\ history[Len(history)].order_id_binance = HandledEvent.i

\* ------------------------------------------------- C10
\* trade-history rows whose PnL was finalized: one per position closed by a
\* fill
ClosedTrades == {k \in DOMAIN history : history[k].pnl # NoPnl}
StatsUpdates == {k \in DOMAIN out : out[k].t = "event" /\ out[k].a = "STATS_UPDATE"}

\* C10: the statistics count each closed position once.  A step updates
\* them at most once, and only when the handler takes a FILLED event (never
\* a PARTIALLY_FILLED one) of an exit order and deletes the Position with
\* it; a step that closes a position by a fill updates them; and the number
\* of trades counted equals the number of positions closed, whatever was
\* delivered twice.
C10_StatsOncePerClose ==
    /\ Cardinality(StatsUpdates) <= 1
    /\ StatsUpdates # {} =>
          /\ Handled
          /\ HandledEvent.X = "FILLED"
          /\ HandledPurpose \in exit_purposes
          /\ Emitted("POSITION_UPDATE:CLOSED")
          /\ ~HasPosition(Cur)
    /\ Emitted("POSITION_UPDATE:CLOSED") => StatsUpdates # {}
    /\ stats.total_trades = Cardinality(ClosedTrades)
    /\ stats.winning_trades + stats.losing_trades <= stats.total_trades

\* the case of C10: the closing FILLED event of a position has been
\* delivered a second time; the handler appended a trade but left the
\* statistics alone, and one trade is counted
C10_ReplayedCloseCountedOnce ==
    /\ Handled
    /\ replays > 0
    /\ HandledEvent.X = "FILLED"
    /\ HandledPurpose = "UNKNOWN"
    /\ \E j \in ClosedTrades :
          /\ j < Len(history)
          /\ history[j].order_id_binance = HandledEvent.i
          /\ history[j].status = "FILLED"
    /\ Emitted("TRADE_UPDATE")
    /\ StatsUpdates = {}
    /\ stats.total_trades = 1

\* ------------------------------------------------- C11
\* A market buy of the largest size the lot-size rules allow, which trades
\* in up to that many trades, at prices that differ from trade to trade.
MaxEntryQty == MaxQty
TradePrices == {1000, 1100}

\* The state after the entry flow has placed a market buy the exchange has
\* accepted and reported NEW, and has not traded yet: the order's row is
\* tracked with purpose ENTRY under the clientOrderId the flow generated.
EntryPlaced ==
    LET coid == generate_client_order_id([now_ms |-> 0], Lower("ENTRY"), 1)
        ord == NewOrder(coid, "BUY", "MARKET", MaxEntryQty, NoList, 0)
        base == [running |-> TRUE, initialized |-> TRUE, wsHandler |-> TRUE, lock |-> "free",
                 positions |-> {}, orders |-> EmptyMap, history |-> <<>>,
                 stats |-> reset_session_stats,
                 symbolInfo |-> [ok |-> TRUE, price_filter |-> TRUE, tickSize |-> 1],
                 quoteFree |-> MaxEntryQty * 10000, balances |-> EmptyMap,
                 exch |-> MapPut(EmptyMap, 1, ord),
                 nextOrderId |-> 2, nextListId |-> 1, wsQueue |-> <<>>,
                 awaiting |-> NoHandler, exitTask |-> NoTask,
                 now_ms |-> coid[2], replays |-> 0, out |-> <<>>]
    IN  [SaveOrder(base, coid, "ENTRY", "NEW", 1, coid, "BUY") EXCEPT !.out = <<>>]

\* the machine starts in state s
StartsIn(s) ==
    /\ running = s.running
    /\ initialized = s.initialized
    /\ wsHandler = s.wsHandler
    /\ lock = s.lock
    /\ positions = s.positions
    /\ orders = s.orders
    /\ history = s.history
    /\ stats = s.stats
    /\ symbolInfo = s.symbolInfo
    /\ quoteFree = s.quoteFree
    /\ balances = s.balances
    /\ exch = s.exch
    /\ nextOrderId = s.nextOrderId
    /\ nextListId = s.nextListId
    /\ wsQueue = s.wsQueue
    /\ awaiting = s.awaiting
    /\ exitTask = s.exitTask
    /\ now_ms = s.now_ms
    /\ replays = s.replays
    /\ out = s.out

InitEntryPlaced == StartsIn(EntryPlaced)

\* the exchange trades l lots of the market order i at price L
market_trade(s, i, l, L, comm) ==
    LET ord == Traded(s.exch[i], l, L)
        report == ExecutionReport(i, ord, l, L, comm[1], comm[2])
    IN  Publish([s EXCEPT !.exch = IF ord.X = "FILLED" THEN MapDel(@, i) ELSE MapPut(@, i, ord)],
                report)

MarketTrade ==
    \E i \in OpenOrders(Cur) :
      /\ exch[i].o = "MARKET"
      /\ \E l \in 1..(exch[i].q - exch[i].z), L \in TradePrices, comm \in CommSet :
            Step(market_trade(Cur, i, l, L, comm))

NextEntryTrades ==
    \/ MarketTrade
    \/ DeliverOrderUpdate
    \/ ReplayOrderUpdate

\* an entry order that trades piece by piece, its events delivered in order
SpecPartialEntry == InitEntryPlaced /\ [][NextEntryTrades]_vars

\* the handler took a PARTIALLY_FILLED event of an order tracked as ENTRY
PartialEntryHandled ==
    /\ Handled
    /\ HandledEvent.X = "PARTIALLY_FILLED"
    /\ HandledPurpose = "ENTRY"

\* C11: after a partial-fill event of an entry order, also one delivered a
\* second time, the Position's quantity is the sum of the order's trades so
\* far (the event's cumulative quantity) and its entry price is their
\* size-weighted average (cumulative quote over cumulative quantity)
C11_PartialEntryAveraged ==
    PartialEntryHandled =>
        /\ HasPosition(Cur)
        /\ get_open_position(Cur).quantity = HandledEvent.z
        /\ get_open_position(Cur).entry_price = HandledEvent.ap

\* C11 fails for a partial-fill event delivered twice: its trade is added
\* to the Position a second time, which then holds more than the order has
\* bought
C11_RepeatedPartialCountedTwice ==
    /\ PartialEntryHandled
    /\ replays > 0
    /\ HasPosition(Cur)
    /\ get_open_position(Cur).quantity = HandledEvent.z + HandledEvent.l

\* Scenario D in the model's units: two partial fills of one lot each, at
\* 1000 and at 1100, each delivered once, leave quantity 2 at price 1050
C11_ScenarioD ==
    /\ PartialEntryHandled
    /\ replays = 0
    /\ HandledEvent.z = 2
    /\ HandledEvent.l = 1
    /\ HandledEvent.L = 1100
    /\ HandledEvent.ap = Frac(2100, 2)
    /\ get_open_position(Cur).quantity = 2
    /\ get_open_position(Cur).entry_price = FInt(1050)

\* ------------------------------------------------- C12
\* What an earlier run of the engine leaves behind.  The run is the
\* handlers applied one after the other: initialize, start, a balance
\* update, a BUY signal whose market buy fills in one trade, the delivery of
\* its events and of the bracket's, and the end of the process.
Fresh(s) == [s EXCEPT !.out = <<>>]

Constructed ==
    [running |-> FALSE, initialized |-> FALSE, wsHandler |-> FALSE, lock |-> "free",
     positions |-> {}, orders |-> EmptyMap, history |-> <<>>,
     stats |-> reset_session_stats, symbolInfo |-> NoInfo, quoteFree |-> 0, balances |-> EmptyMap,
     exch |-> EmptyMap, nextOrderId |-> 1, nextListId |-> 1, wsQueue |-> <<>>,
     awaiting |-> NoHandler, exitTask |-> NoTask, now_ms |-> 0, replays |-> 0, out |-> <<>>]

\* the stream reader delivers what the stream holds, event by event; the
\* calls made for the last event that waits now are answered by env
RECURSIVE Drain(_, _)
Drain(s, env) ==
    IF s.wsQueue = <<>> THEN s
    ELSE CHOOSE r \in {Drain(n, env) :
                n \in {handle_order_update(Fresh([s EXCEPT !.wsQueue = Tail(@)]),
                                           Head(s.wsQueue),
                                           IF Len(s.wsQueue) = 1 THEN env ELSE Quiet)}} : TRUE

\* a run that bought 2 lots at 1000 under symbol info "info"; the bracket
\* placement that follows the fill is answered with "oco"
RunToBracket(info, oco) ==
    LET plan == [first |-> 0, L1 |-> 1000, L2 |-> 1000, comm |-> <<1, QuoteAsset>>]
        buy == [Quiet EXCEPT !.price = 1000, !.info = info, !.place = "OK",
                             !.status = "NEW", !.fills = plan]
        initialized0 == [Constructed EXCEPT !.initialized = TRUE, !.wsHandler = TRUE,
                                            !.symbolInfo = info]
    IN  CHOOSE r \in
            {Drain(s4, [Quiet EXCEPT !.oco = oco, !.info = info]) :
                s4 \in {process_signal(Fresh(s3), "BUY", buy) :
                    s3 \in {handle_balance_update(Fresh(s2), 20000) :
                        s2 \in {start(initialized0, Quiet, "OK").s}}}} : TRUE

EarlierRun(info, oco) == CHOOSE r \in {new_process(s) : s \in {RunToBracket(info, oco)}} : TRUE

\* what the exchange did with the bracket of stored state s while the
\* engine was stopped: nothing, a partial fill of the take-profit leg
\* (which ends the other leg), or a fill of either leg
WhileStopped(s) ==
    LET comm == <<1, QuoteAsset>>
    IN  {s,
         exchange_fill(Fresh(s), 2, 1, comm, FALSE),
         exchange_fill(Fresh(s), 2, 2, comm, FALSE),
         exchange_fill(Fresh(s), 3, 2, comm, TRUE)}

\* the stores and the exchange when the engine is started again: nothing
\* stored, a position with its bracket recorded, a position with no list
\* recorded (its bracket prices did not pass validation)
StoredStates ==
    LET tick1 == [ok |-> TRUE, price_filter |-> TRUE, tickSize |-> 1]
        tick20 == [ok |-> TRUE, price_filter |-> TRUE, tickSize |-> 20]
    IN  {Constructed, EarlierRun(tick20, "NONE")}
        \cup UNION {WhileStopped(s) : s \in {EarlierRun(tick1, oco) : oco \in {"OK_NOCID", "OK_CID"}}}

InitStored == \E s \in StoredStates : StartsIn(s)

NextRecovery ==
    \/ Initialize
    \/ Start
    \/ ExchangeFill
    \/ DeliverOrderUpdate

\* the engine started again on what an earlier run stored
SpecRecovery == InitStored /\ [][NextRecovery]_vars

\* the recovery routine got the open orders and found fewer than two legs
\* of the recorded list among them; the one it found, it cancelled
StaleBracketFound ==
    /\ \E k \in Calls("oco_restore") : out[k].a = "SAVED" /\ out[k].q < 2
    /\ \A k \in Calls("cancel_order") : out[k].r = "OK"

\* C12: when recovery finds fewer than two legs of the recorded bracket
\* list open on the exchange (and has cancelled the one it found), it
\* clears the recorded list id and sends a fresh bracket order to the
\* exchange
C12_RecoveryReplacesBracket ==
    StaleBracketFound =>
        /\ HasPosition(Cur)
        /\ Calls("place_oco_order") # {}

\* C12 fails in Scenario E: recovery found one leg, cancelled it and
\* cleared the recorded list id, but sent no bracket order; the engine is
\* started and holds a position with no order on the exchange
C12_RecoveryLeavesNoBracket ==
    /\ \E k \in Calls("oco_restore") : out[k].a = "SAVED" /\ out[k].q = 1
    /\ \E k \in Calls("cancel_order") : out[k].r = "OK"
    /\ HasPosition(Cur)
    /\ get_open_position(Cur).oco_list_id = NoList
    /\ Calls("place_oco_order") = {}
    /\ OpenOrders(Cur) = {}
    /\ running

\* ------------------------------------------------- C13
\* calls to the exchange that look at or change its orders
ExchangeCalls ==
    Calls("get_open_orders") \cup Calls("cancel_order") \cup Calls("cancel_all_orders")
        \cup Calls("place_oco_order") \cup Calls("place_order")

\* C13: the recovery routine runs only inside start(), once, and all it
\* does comes before the streams are started; it calls the exchange only
\* if the store holds a Position
C13_RecoveryOnceBeforeFeed ==
    /\ Cardinality(Calls("check_and_restore_oco")) <= 1
    /\ Cardinality(Calls("start_user_data_stream")) <= 1
    /\ Calls("check_and_restore_oco") # {} <=> Calls("start_user_data_stream") # {}
    /\ \A k \in Calls("start_user_data_stream") :
          \A j \in Calls("check_and_restore_oco") \cup Calls("oco_restore") \cup ExchangeCalls : j < k
    /\ (Calls("check_and_restore_oco") # {} /\ ExchangeCalls # {}) => HasPosition(Cur)

\* the case of C13: start() found a Position, recovery asked the exchange
\* and cancelled an order, and then the streams were started
C13_RecoveredThenStarted ==
    /\ HasPosition(Cur)
    /\ \E k \in Calls("start_user_data_stream") :
          /\ out[k].r = "OK"
          /\ \E j \in Calls("cancel_order") : j < k
    /\ running

\* ------------------------------------------------- C14
\* C14: when the open-orders query of recovery fails, recovery cancels
\* nothing and places nothing, and start() goes on: it starts the streams
\* and, when that works, the engine runs
C14_QueryFailureAbortsRecovery ==
    \A k \in Calls("get_open_orders") :
        out[k].r = "FAIL" =>
            /\ ExchangeCalls = {k}
            /\ \E j \in Calls("start_user_data_stream") :
                  /\ k < j
                  /\ out[j].r = "OK" => (running /\ Emitted("STATUS_UPDATE"))

\* the case of C14: a Position with a stale bracket is stored, the query
\* failed, and the engine runs
C14_StartedAfterFailedQuery ==
    /\ \E k \in Calls("get_open_orders") : out[k].r = "FAIL"
    /\ HasPosition(Cur)
    /\ get_open_position(Cur).oco_list_id # NoList
    /\ Cardinality(OpenOrders(Cur)) < 2
    /\ running
    /\ Emitted("STATUS_UPDATE")


\* ------------------------------------------------- operator commands
\* The command processor thread hands each command of command_queue to
\* _process_command_async.  The commands meet an engine just constructed,
\* one that has placed an entry order, one whose entry order has traded in
\* full, and whatever the delivery of the order's events and the commands
\* themselves make of these.
EntryTraded == market_trade(EntryPlaced, 1, MaxEntryQty, 1000, <<1, QuoteAsset>>)

InitCommands == StartsIn(Constructed) \/ StartsIn(EntryPlaced) \/ StartsIn(EntryTraded)

\* answers to the calls a command makes
CommandsEnv(s, command_type) ==
    IF command_type = "START" THEN StartEnv(s)
    ELSE IF command_type = "CLOSE_POSITION" THEN CommandEnv(s)
    ELSE {Quiet}

Outcomes(command_type) ==
    IF command_type \in {"START", "RELOAD_SETTINGS"} THEN {"OK", "FAIL"} ELSE {"OK"}

\* the thread that takes commands from the queue is started by initialize()
Command ==
    /\ initialized
    /\ \E command_type \in Commands \cup {"UNKNOWN"} :
         \E env \in CommandsEnv(Cur, command_type), outcome \in Outcomes(command_type) :
            Step(process_command(Cur, command_type, env, outcome))

NextCommands ==
    \/ Initialize
    \/ Command
    \/ DeliverOrderUpdate

SpecCommands == InitCommands /\ [][NextCommands]_vars

\* the step processed command "command_type"
CommandProcessed(command_type) ==
    \E k \in Calls("command") : out[k].a = command_type
Events == {k \in DOMAIN out : out[k].t = "event"}

\* C16: every operator command (START, STOP, CLOSE_POSITION,
\* RELOAD_SETTINGS, GET_STATUS, GET_BALANCE, GET_POSITION, GET_HISTORY,
\* GET_STATS), in any engine state, puts exactly one outbound event.
C16_OneEventPerCommand ==
    \A command_type \in Commands :
        CommandProcessed(command_type) => Cardinality(Events) = 1

\* a successful RELOAD_SETTINGS is answered INFO and then STATUS_RESPONSE
C16_ReloadAnsweredTwice ==
    /\ CommandProcessed("RELOAD_SETTINGS")
    /\ Cardinality(Events) = 2
    /\ Emitted("INFO") /\ Emitted("STATUS_RESPONSE")


\* ------------------------------------------------- tasks on the event loop
\* BinanceWebSocketHandler._run_loop is one task: it awaits _on_message,
\* and through it the core's handler, for each message before it reads the
\* next.  The command processor thread hands every command to the same
\* loop with run_coroutine_threadsafe, where _process_command_async runs
\* as a task of its own; the handlers share no lock, so the loop runs it
\* whenever the stream task is suspended in a call.

\* the stream task is between two messages
StreamIdle == awaiting = NoHandler

\* the stream task takes the next executionReport and its handler runs
\* until it is suspended in the call of BinanceAPI.place_oco_order
BeginOrderUpdate ==
    /\ StreamIdle
    /\ wsQueue # <<>>
    /\ \E env \in {[x EXCEPT !.oco = "AWAIT"] : x \in OrderEnv(Cur, Head(wsQueue))} :
         \E s \in {handle_order_update([Cur EXCEPT !.wsQueue = Tail(@)], Head(wsQueue), env)} :
            s.awaiting # NoHandler /\ Step(s)

\* the call returns and the handler runs to its end
ResumeOrderUpdate ==
    /\ ~StreamIdle
    /\ \E env \in PlaceEnv(Cur), oco \in {"OK_CID", "OK_NOCID", "NONE"} :
          Step(oco_order_requested([Cur EXCEPT !.awaiting = NoHandler], awaiting.quantity,
                                   awaiting.prices, [env EXCEPT !.oco = oco, !.cancel = "OK"]))

NextTasks ==
    \/ MarketTrade
    \/ StreamIdle /\ DeliverOrderUpdate
    \/ BeginOrderUpdate
    \/ ResumeOrderUpdate
    \/ ClosePositionCommand

\* an entry order that trades while the operator may ask for the position
\* to be closed
SpecTasks == InitEntryPlaced /\ [][NextTasks]_vars

\* C15: kline closes, order updates, balance updates and operator commands
\* are processed one at a time by a single consumer: no handler that
\* mutates Position or ActiveOrder state starts while another such handler
\* is suspended in an exchange or store call.
C15_OneHandlerAtATime ==
    Calls("command") # {} => StreamIdle

\* CLOSE_POSITION is processed, and sells the position, while the
\* order-update handler that opened the position is suspended in the call
\* that places its bracket
C15_ExitDuringOrderUpdate ==
    /\ CommandProcessed("CLOSE_POSITION")
    /\ MarketSells # {}
    /\ ~StreamIdle
    /\ awaiting.call = "place_oco_order"


\* ------------------------------------------------- signals
\* the step processed the strategy's signal "signal"
SignalProcessed(signal) == \E k \in Calls("signal") : out[k].a = signal
\* orders the step sent to the exchange, and cancellations it asked for
OrdersSubmitted == Calls("place_order") \cup Calls("place_oco_order")
Cancellations == Calls("cancel_order") \cup Calls("cancel_all_orders")

\* what the stores hold when the signal arrives
BuyBlocked == HasPosition(Cur) \/ PendingEntry(Cur) # {} \/ PendingExit(Cur) # {}
CloseBlocked == ~HasPosition(Cur) \/ PendingExit(Cur) # {}

\* C17: a BUY signal submits no entry order if a position exists, or an
\* entry order is pending, or an exit order is pending; otherwise it
\* triggers the entry flow.
C17_BuySignalGuarded ==
    [][SignalProcessed("BUY")' =>
          IF BuyBlocked
          THEN (Calls("initiate_entry") = {} /\ OrdersSubmitted = {})'
          ELSE (Calls("initiate_entry") # {})']_vars

\* a BUY signal arrived while an exit order was pending and no position was
\* held, and nothing was sent
C17_BuyIgnoredWhileExitPending ==
    /\ SignalProcessed("BUY")
    /\ ~HasPosition(Cur)
    /\ PendingExit(Cur) # {}
    /\ OrdersSubmitted = {}

\* C18: a CLOSE signal is ignored (no cancellation and no sell is issued) if
\* no position exists or an exit order is already pending.
C18_CloseSignalIgnored ==
    [][(SignalProcessed("CLOSE")' /\ CloseBlocked) =>
          (Calls("initiate_exit") = {} /\ OrdersSubmitted = {} /\ Cancellations = {})']_vars

\* a CLOSE signal arrived while a position was held and an exit order was
\* pending, and nothing was cancelled or sent
C18_CloseIgnoredWhileExitPending ==
    /\ SignalProcessed("CLOSE")
    /\ HasPosition(Cur)
    /\ PendingExit(Cur) # {}
    /\ OrdersSubmitted = {}
    /\ Cancellations = {}

\* ------------------------------------------------------------------
\* Exits requested by the strategy and by the operator while the entry
\* order is still trading (C19, C20)

NextExit ==
    \/ MarketTrade
    \/ DeliverOrderUpdate
    \/ Signal
    \/ ClosePositionCommand

SpecExit == InitEntryPlaced /\ [][NextExit]_vars

\* the step ran an exit request of the strategy or of the operator
ExitRequested == SignalProcessed("CLOSE") \/ CommandProcessed("CLOSE_POSITION")

FailedCancellations == {k \in Cancellations : out[k].r # "OK"}

PendingExitSells(s) ==
    {k \in PendingExit(s) : s.orders[k].purpose \notin {"TP", "SL"}}

\* C20: the exit flow submits a market sell only when a position exists
\* and no exit sell is active, so that CLOSE signals, CLOSE_POSITION
\* commands and protection failures never put a second exit sell in flight
\* for a position: a step that goes through the exit flow and submits a
\* market sell starts with no active exit sell tracked, and with a position
\* when a signal or a command requested the exit.
C20_OneExitSellInFlight ==
    [][(Calls("initiate_exit") # {} /\ MarketSells # {})' =>
          /\ PendingExitSells(Cur) = {}
          /\ ExitRequested' => HasPosition(Cur)]_vars

\* the operator's CLOSE_POSITION submitted a second market sell for the
\* position while the market sell of an earlier exit was still tracked as
\* active
C20_SecondExitSell ==
    /\ CommandProcessed("CLOSE_POSITION")
    /\ \E k \in MarketSells, n \in DOMAIN wsQueue :
          /\ out[k].r \in {"OK", "LOST"}
          /\ wsQueue[n].S = "SELL"
          /\ wsQueue[n].o = "MARKET"
          /\ wsQueue[n].X = "FILLED"
          /\ wsQueue[n].c # out[k].id

\* ------------------------------------------------------------------
\* The lot-size adjustment as a function of the quantity and the rule (C21)

MaxRuleQty == 5     \* largest minQty, maxQty and twice the largest stepSize tried
QtySet == {Frac(n, 2) : n \in -2 .. 2 * MaxRuleQty + 2}
RuleSet == [minQty : 0 .. 3, maxQty : 0 .. MaxRuleQty, stepSize : 0 .. 3]

\* _adjust_quantity_async is called with a quantity while the symbol's
\* LOT_SIZE filter holds some rule
AdjustQuantity ==
    \E quantity \in QtySet, rule \in RuleSet :
        Step(Emit(Cur, Call("adjust_quantity", rule, quantity, NoKey,
                            apply_lot_size(quantity, rule.minQty, rule.maxQty, rule.stepSize))))

SpecLotSize == Init /\ [][AdjustQuantity]_vars

\* q is a non-negative integer multiple of step
IsMultiple(q, step) == \E m \in 0 .. MaxRuleQty + 1 : q = FInt(m * step)

WithinRule(q, rule) ==
    /\ IsMultiple(q, rule.stepSize)
    /\ ~FLess(FInt(rule.maxQty), q)
    /\ ~FLess(q, FInt(rule.minQty))

\* C21 as stated: for any gross quantity and any lot-size rule the result
\* is None or a non-negative integer multiple of stepSize, at most maxQty
\* and at least minQty.
C21_AdjustedWithinAnyRule ==
    \A k \in Calls("adjust_quantity") : out[k].r = NoneQty \/ WithinRule(out[k].r, out[k].a)

\* C21 amended: the same for every rule whose stepSize is positive; under a
\* rule with stepSize 0 no step is applied, and the result is None or the
\* quantity capped at maxQty, at least minQty.
C21_AdjustedWithinRule ==
    \A k \in Calls("adjust_quantity") :
        \/ out[k].r = NoneQty
        \/ /\ out[k].a.stepSize > 0
           /\ WithinRule(out[k].r, out[k].a)
        \/ /\ out[k].a.stepSize = 0
           /\ out[k].r \in {out[k].q, FInt(out[k].a.maxQty)}
           /\ ~FLess(FInt(out[k].a.maxQty), out[k].r)
           /\ ~FLess(out[k].r, FInt(out[k].a.minQty))

\* a quantity above maxQty that is not on the step grid was capped and
\* floored to a smaller multiple of the step
C21_CappedAndFloored ==
    \E k \in Calls("adjust_quantity") :
        /\ out[k].a.stepSize > 1
        /\ FLess(FInt(out[k].a.maxQty), out[k].q)
        /\ out[k].r # NoneQty
        /\ FLess(out[k].r, FInt(out[k].a.maxQty))

\* ------------------------------------------------------------------
\* The PnL of a closed trade as a function of the Position row and of the
\* exit order's FILLED event (C22)

OtherAsset == "BNB"
PnlPositions ==
    [quantity : {-2, 0, 3},
     entry_price : {FZero, Frac(2001, 2)},
     entry_commission : {0, 1},
     entry_commission_asset : {QuoteAsset, BaseAsset, OtherAsset}]
PnlExits ==
    [ap : {FZero, Frac(3001, 3)},
     z : {0, 2},
     n : {0, 2},
     N : {QuoteAsset, BaseAsset, OtherAsset, ""}]

\* the order-update handler computes the PnL of the position pos from the
\* FILLED event ev of an exit order
CalculateTradePnl ==
    \E pos \in PnlPositions, ev \in PnlExits :
        Step(Emit(Cur, Call("calculate_trade_pnl", pos, ev, NoKey,
                            calculate_trade_pnl(pos, ev.ap, ev.z, ev.n, ev.N))))

SpecPnl == Init /\ [][CalculateTradePnl]_vars

\* numerator of "amount" of "asset" in quote terms over the denominator
\* price[2] * other: added as it is when charged in the quote asset,
\* converted at "price" when charged in the base asset
CommissionOver(amount, asset, price, other) ==
    IF asset = QuoteAsset THEN amount * price[2] * other
    ELSE IF asset = BaseAsset THEN amount * price[1] * other
    ELSE 0

\* C22: the realized PnL equals the exit notional (exit average price x
\* exit filled quantity) minus the entry notional (entry price x quantity
\* recorded on the Position) minus the commissions in quote terms: a
\* quote-asset commission as it is, a base-asset commission converted at
\* the entry price for the entry and at the exit price for the exit.
C22_PnlFormula ==
    \A k \in Calls("calculate_trade_pnl") :
        LET pos == out[k].a
            ev == out[k].q
            pe == pos.entry_price
            px == ev.ap
            expected == px[1] * ev.z * pe[2] - pe[1] * Abs(pos.quantity) * px[2]
                        - CommissionOver(pos.entry_commission, pos.entry_commission_asset, pe, px[2])
                        - CommissionOver(ev.n, ev.N, px, pe[2])
        IN  (pe[1] > 0 /\ pos.quantity # 0 /\ px[1] > 0 /\ ev.z > 0) =>
                /\ out[k].r # NoPnl
                /\ out[k].r[1][1] * pe[2] * px[2] = expected * out[k].r[1][2]

\* a trade whose two commissions were charged in the base asset, entry and
\* exit at different prices
C22_BaseCommissionsBothSides ==
    \E k \in Calls("calculate_trade_pnl") :
        /\ out[k].r # NoPnl
        /\ out[k].a.entry_commission > 0 /\ out[k].a.entry_commission_asset = BaseAsset
        /\ out[k].q.n > 0 /\ out[k].q.N = BaseAsset
        /\ out[k].a.entry_price # out[k].q.ap
        /\ out[k].a.quantity # out[k].q.z

\* ------------------------------------------------------------------
\* Ids generated from the clock (C23)

\* milliseconds on the clock between two generations: none, or one
ClockSteps == {0, 1}

\* the operator's CLOSE_POSITION, at any reading of the clock
ClosePositionAt ==
    /\ running
    /\ \E env \in CommandEnv(Cur), elapsed \in ClockSteps :
          Step(process_command(Cur, "CLOSE_POSITION", [env EXCEPT !.elapsed = elapsed], "OK"))

NextIds ==
    \/ MarketTrade
    \/ DeliverOrderUpdate
    \/ ClosePositionAt

SpecIds == InitEntryPlaced /\ [][NextIds]_vars

\* C23: every id the engine generates is unique: no two orders the engine
\* placed, for any purposes and any timing of the two generations, carry
\* the same id.  Read on the executionReports of the stream, which carry
\* the exchange's orderId next to the id the engine gave the order.
C23_UniqueIds ==
    \A m, n \in DOMAIN wsQueue :
        (HasEnginePrefix(wsQueue[m].c) /\ wsQueue[m].c = wsQueue[n].c)
            => wsQueue[m].i = wsQueue[n].i

\* the exchange accepted a market sell under the id that an earlier order,
\* whose executionReport is still unread, already carries
C23_SameIdTwice ==
    /\ CommandProcessed("CLOSE_POSITION")
    /\ \E k \in MarketSells, n \in DOMAIN wsQueue :
          /\ out[k].r \in {"OK", "LOST"}
          /\ wsQueue[n].c = out[k].id
          /\ wsQueue[n].i < nextOrderId - 1

\* ------------------------------------------------------------------
\* The balance cache of the state manager (C24, C25)

MaxAmount == 2      \* largest free amount the cache is driven to
Assets == {QuoteAsset, BaseAsset}
Amounts == [free : 0 .. 1, locked : 0 .. 1]
\* balance maps the exchange reports: some of the assets, each with its amounts
Snapshots == UNION {[A -> Amounts] : A \in SUBSET Assets}

AmountsWithin(s) ==
    \A a \in DOMAIN s.balances : s.balances[a].free \in -MaxAmount .. MaxAmount

SetBalances ==
    \E balance_data \in Snapshots :
        Step(Emit(set_balances(Cur, balance_data), Call("set_balances", "", 0, NoKey, "")))

UpdateBalances ==
    \E balances_update \in Snapshots \ {EmptyMap} :
        Step(Emit(update_balances(Cur, balances_update), Call("update_balances", "", 0, NoKey, "")))

UpdateBalanceAsset ==
    \E asset \in Assets, amounts \in Amounts :
        Step(Emit(update_balance_asset(Cur, asset, amounts.free, amounts.locked),
                  Call("update_balance_asset", asset, 0, NoKey, "")))

\* the call is recorded with the free amount the asset had before it, if
\* the asset was tracked
UpdateBalanceDelta ==
    \E asset \in Assets, delta \in -1 .. 1 :
      \E r \in {update_balance_delta(Cur, asset, delta)} :
        /\ AmountsWithin(r.s)
        /\ Step(Emit(r.s, Call("update_balance_delta", asset, delta,
                               IF asset \in DOMAIN balances THEN <<balances[asset].free>>
                               ELSE NoKey,
                               r.needs_full_fetch)))

NextBalances ==
    \/ SetBalances
    \/ UpdateBalances
    \/ UpdateBalanceAsset
    \/ UpdateBalanceDelta

SpecBalances == Init /\ [][NextBalances]_vars

\* C24: update_balance_delta answers true whenever the asset was untracked
\* before the call, for any signed delta, or the resulting free balance is
\* negative.
C24_DeltaAsksForFetch ==
    \A k \in Calls("update_balance_delta") :
        (out[k].id = NoKey \/ out[k].id[1] + out[k].q < 0) => out[k].r = TRUE

\* a delta that is not positive arrived for an untracked asset: the cache
\* is left as it was and the answer is false
C24_UntrackedDeltaIgnored ==
    \E k \in Calls("update_balance_delta") :
        /\ out[k].id = NoKey
        /\ out[k].q <= 0
        /\ out[k].r = FALSE
        /\ out[k].a \notin DOMAIN balances

\* C25: after any sequence of cache operations (full-snapshot replace,
\* snapshot merge, delta, direct set) the balance map holds no asset whose
\* free and locked amounts are both zero.
C25_NoZeroBalanceKept ==
    \A a \in DOMAIN balances : ~(balances[a].free = 0 /\ balances[a].locked = 0)

\* a snapshot merge wrote an asset with nothing free and nothing locked
\* into the map
C25_ZeroBalanceMerged ==
    /\ Calls("update_balances") # {}
    /\ \E a \in DOMAIN balances : balances[a].free = 0 /\ balances[a].locked = 0

\* ------------------------------------------------------------------
\* One bracket leg fills (C26)

\* the handler took an event of an order that belongs to an order list
LegEvent == Handled /\ HandledEvent.g # NoList

\* the FILLED report of another order of the same list is still on its way
\* to the handler
FilledLegWaiting ==
    \E k \in DOMAIN wsQueue :
        /\ wsQueue[k].g = HandledEvent.g
        /\ wsQueue[k].i # HandledEvent.i
        /\ wsQueue[k].X = "FILLED"

\* C26: a bracket leg fills, and the exchange reports FILLED for it and
\* CANCELED or EXPIRED for its sibling; in either arrival order no emergency
\* market sell is sent, and the Position is deleted once the FILLED report
\* has been handled.
C26_LegFillClosesQuietly ==
    (LegEvent /\ replays = 0) =>
        /\ HandledEvent.X = "FILLED" => (~HasPosition(Cur) /\ MarketSells = {})
        /\ (HandledEvent.X \in {"CANCELED", "EXPIRED"} /\ FilledLegWaiting) => MarketSells = {}

\* the sibling's report arrived first: the Position is still there, the
\* handler raises CRITICAL_ERROR and sells at market
C26_SiblingFirstSells ==
    /\ LegEvent
    /\ replays = 0
    /\ HandledEvent.X = "EXPIRED"
    /\ FilledLegWaiting
    /\ HandledPurpose \in {"TP", "SL"}
    /\ Emitted("CRITICAL_ERROR")
    /\ MarketSells # {}

\* ------------------------------------------------------------------
\* The exit flow as a task of its own (C27, C28)
\* _process_command_async runs as a task beside the stream task, and the
\* exit flow it starts is suspended in every call it awaits; the stream
\* task's handler runs meanwhile.

ExitTaskIdle == exitTask = NoTask

\* answers to the calls of an exit flow that is left suspended in
\* cancel_all_orders, or in place_order
SuspendingEnv(s) ==
    {[x EXCEPT !.cancel = "AWAIT"] : x \in {Quiet}}
    \cup {[x EXCEPT !.cancel = "OK", !.place = "AWAIT"] :
            x \in {y \in PlaceEnv(s) : y.place = "OK" /\ y.status = "NEW"}}

\* CLOSE_POSITION is processed up to the call its exit flow is suspended in
BeginClosePosition ==
    /\ running
    /\ ExitTaskIdle
    /\ HasPosition(Cur)
    /\ \E env \in SuspendingEnv(Cur) :
         \E s \in {process_command(Cur, "CLOSE_POSITION", env, "OK")} :
            s.exitTask # NoTask /\ Step(s)

\* the call returns and the exit flow runs on, to its end or to the next
\* call it is suspended in
ResumeExit ==
    /\ ~ExitTaskIdle
    /\ \E env \in PlaceEnv(Cur) \cup SuspendingEnv(Cur) :
          /\ exitTask.call = "cancel_all_orders" => env.cancel # "AWAIT"
          /\ exitTask.call = "place_order" => env.place \in {"OK", "NONE"} /\ env.price = 1000
          /\ Step(resume_exit(Cur, env))

NextExitTasks ==
    \/ MarketTrade
    \/ DeliverOrderUpdate
    \/ BeginClosePosition
    \/ ResumeExit

SpecExitTasks == InitEntryPlaced /\ [][NextExitTasks]_vars

\* C27: a CANCELED event of a bracket leg the engine cancelled itself in
\* the exit flow starts no further exit, wherever the exit flow stands
\* (before or after clearing its rows, before or after its sell) when the
\* event is handled.
C27_OwnCancelStartsNoExit ==
    (Handled /\ HandledEvent.X = "CANCELED" /\ HandledEvent.g # NoList) => ~ExitInitiated

\* the CANCELED event of a leg is handled while the exit flow that
\* cancelled it still waits for the answer, its rows not yet cleared: the
\* handler raises CRITICAL_ERROR and sells the position itself
C27_OwnCancelSellsPosition ==
    /\ Handled
    /\ HandledEvent.X = "CANCELED"
    /\ HandledEvent.g # NoList
    /\ HandledPurpose \in {"TP", "SL"}
    /\ ~ExitTaskIdle
    /\ exitTask.call = "cancel_all_orders"
    /\ Emitted("CRITICAL_ERROR")
    /\ MarketSells # {}

\* the handler took the FILLED event of an exit order, the first sell that
\* filled
ExitFillHandled ==
    /\ Handled
    /\ replays = 0
    /\ HandledEvent.X = "FILLED"
    /\ HandledEvent.c # NoCid
    /\ FirstToken(HandledEvent.c[1]) = "exit"
    /\ Cardinality({k \in DOMAIN history :
                       history[k].side = "SELL" /\ history[k].status = "FILLED"}) <= 1

\* C28: the FILLED event of the exit flow's own order, handled at any point
\* of the flow (also before the flow has saved the order's row), deletes
\* the Position and records the PnL.
C28_ExitFillClosesPosition ==
    ExitFillHandled => (~HasPosition(Cur) /\ Emitted("POSITION_UPDATE:CLOSED"))

\* the FILLED event is handled while the exit flow still waits for the
\* answer to its sell: no row is found, the event is resolved to UNKNOWN
\* and the Position stays
C28_FillBeforeRowIgnored ==
    /\ ExitFillHandled
    /\ ~ExitTaskIdle
    /\ exitTask.call = "place_order"
    /\ exitTask.client_order_id = HandledEvent.c
    /\ HandledPurpose = "UNKNOWN"
    /\ HasPosition(Cur)

\* ------------------------------------------------------------------
\* An entry that completes through partial fills (C29)

\* the handler took, for the first time, the FILLED event of an entry order
\* whose earlier trades were reported PARTIALLY_FILLED
EntryCompletedInParts ==
    /\ Handled
    /\ replays = 0
    /\ HandledEvent.X = "FILLED"
    /\ HandledPurpose = "ENTRY"
    /\ HandledEvent.l < HandledEvent.z

\* C29: when an entry order completes through PARTIALLY_FILLED events and a
\* FILLED event, the Position then holds the order's cumulative filled
\* quantity, a bracket is placed for it and no CRITICAL_ERROR is emitted.
C29_PartsThenFilledProtected ==
    EntryCompletedInParts =>
        /\ HasPosition(Cur)
        /\ get_open_position(Cur).quantity = HandledEvent.z
        /\ Calls("place_oco_order") # {}
        /\ ~Emitted("CRITICAL_ERROR")

\* the FILLED event finds the Position the partial fill opened: it is
\* answered with CRITICAL_ERROR, the last trade is not added and no bracket
\* is asked for
C29_FilledAfterPartsRefused ==
    /\ EntryCompletedInParts
    /\ Emitted("CRITICAL_ERROR")
    /\ get_open_position(Cur).quantity = HandledEvent.z - HandledEvent.l
    /\ Calls("place_oco_order") = {}

\* ------------------------------------------------------------------
\* The keys of the ActiveOrder rows (C30)

\* rows the engine wrote for orders it placed
EngineRows == {k \in DOMAIN orders : orders[k].purpose \in {"ENTRY"} \cup exit_purposes}

\* the id the handler derives from an event of the order a row describes
EventIdOfRow(row) == InternalIdOf([c |-> row.client_order_id, i |-> row.order_id_binance])

\* C30: every ActiveOrder row the engine writes (entry order, exit order,
\* both bracket legs) is stored under the id the order-update handler
\* derives from the order's events, so that no event of an order is
\* resolved to UNKNOWN while the order's row exists.
C30_RowsKeyedByEventId ==
    /\ \A k \in EngineRows : k = EventIdOfRow(orders[k])
    /\ (Handled /\ \E k \in EngineRows : orders[k].order_id_binance = HandledEvent.i)
          => HandledPurpose # "UNKNOWN"

\* an event of a bracket leg is resolved to UNKNOWN although the leg's row
\* exists: the row is stored under the clientOrderId the exchange gave the
\* leg, the handler looked under str(orderId)
C30_LegEventUnresolved ==
    /\ Handled
    /\ HandledPurpose = "UNKNOWN"
    /\ out[1].id = OidKey(HandledEvent.i)
    /\ HandledEvent.c \in EngineRows
    /\ orders[HandledEvent.c].purpose \in {"TP", "SL"}
    /\ orders[HandledEvent.c].order_id_binance = HandledEvent.i

\* ------------------------------------------------------------------
\* A CLOSE signal for a position protected by its bracket (C31)

\* a position is open, no entry order is active, and the active exit-side
\* rows are those of bracket legs that rest at the exchange
OnlyLegsActive ==
    /\ HasPosition(Cur)
    /\ PendingEntry(Cur) = {}
    /\ PendingExit(Cur) # {}
    /\ \A k \in PendingExit(Cur) :
          /\ orders[k].purpose \in {"TP", "SL"}
          /\ orders[k].order_id_binance \in OpenOrders(Cur)

\* the exit flow reported that it could not go on
ExitFlowFailed == Emitted("CRITICAL_ERROR") \/ Emitted("TRADE_ERROR")

\* C31: a CLOSE signal received while a position is open and the only
\* active exit-side orders are its live take-profit and stop-loss legs
\* starts the exit flow: the legs are cancelled and, unless the flow reports
\* a failure, one market sell is submitted.
C31_CloseCancelsLegsAndSells ==
    [][(SignalProcessed("CLOSE")' /\ OnlyLegsActive) =>
          (/\ Calls("initiate_exit") # {}
           /\ Calls("cancel_all_orders") # {}
           /\ ExitFlowFailed \/ Cardinality(MarketSells) = 1)']_vars

\* the CLOSE signal was processed with both legs tracked and live, and
\* nothing was cancelled or sold: the legs count as pending exit orders
C31_CloseIgnoredForLegs ==
    /\ SignalProcessed("CLOSE")
    /\ OnlyLegsActive
    /\ Tracked("TP") /\ Tracked("SL")
    /\ Calls("initiate_exit") = {}
    /\ Cancellations = {}
    /\ MarketSells = {}

\* ------------------------------------------------------------------
\* A FILLED entry event that finds a position (C32)

\* C32: when the FILLED event of an order tracked as ENTRY is handled while
\* a Position exists for the symbol, CRITICAL_ERROR is emitted and the
\* Position row is left as it was.
C32_FilledEntryKeepsPosition ==
    [][(HasPosition(Cur) /\ Handled' /\ (HandledEvent.X = "FILLED")' /\ (HandledPurpose = "ENTRY")')
          => (Emitted("CRITICAL_ERROR")' /\ positions' = positions)]_vars

\* the FILLED event of an entry was answered with CRITICAL_ERROR: the
\* Position it found is there, none was opened and no bracket was asked for
C32_FilledEntryRefused ==
    /\ Handled
    /\ HandledEvent.X = "FILLED"
    /\ HandledPurpose = "ENTRY"
    /\ Emitted("CRITICAL_ERROR")
    /\ HasPosition(Cur)
    /\ ~Emitted("POSITION_UPDATE:OPEN")
    /\ OrdersSubmitted = {}

\* ------------------------------------------------------------------
\* The prices of the bracket (C33)

EntryPrices == {Frac(1, 2), Frac(1, 1), Frac(3, 1), Frac(101, 2), Frac(1000, 1)}
TickSizes == {1, 2, 20}
TpBpsSet == {1, 100, 5000}                  \* take_profit_percent 0.01, 1, 50
SlBpsSet == {1, 50, 5000, 10000, 15000}     \* stop_loss_percent 0.01, 0.5, 50, 100, 150

\* the prices are computed, and validated, for a position's entry price
ComputeOcoPrices ==
    \E entry_price \in EntryPrices, tickSize \in TickSizes, tp_bps \in TpBpsSet, sl_bps \in SlBpsSet :
        Step(Emit(Cur, Call("oco_prices",
                            [entry_price |-> entry_price, tickSize |-> tickSize,
                             tp_bps |-> tp_bps, sl_bps |-> sl_bps],
                            0, NoKey, OcoPricesAt(entry_price, tickSize, tp_bps, sl_bps))))

SpecOcoPrices == Init /\ [][ComputeOcoPrices]_vars

\* C33: prices that pass validation, and so are submitted, have the
\* take-profit price above the entry price, the stop trigger below the
\* entry price, and the stop-limit price below the stop trigger, or equal
\* to it when the trigger is at the minimum tick; this for every
\* take-profit and stop-loss percentage and every tick size.
C33_SubmittedPricesOrdered ==
    \A k \in Calls("oco_prices") :
        out[k].r.valid =>
            /\ FLess(out[k].a.entry_price, FInt(out[k].r.tp))
            /\ FLess(FInt(out[k].r.sl_trigger), out[k].a.entry_price)
            /\ \/ out[k].r.sl_limit < out[k].r.sl_trigger
               \/ /\ out[k].r.sl_limit = out[k].r.sl_trigger
                  /\ out[k].r.sl_trigger = out[k].a.tickSize

\* with a stop-loss of 100 percent the trigger is 0 and the stop-limit
\* price, raised to one tick, lies above it; the prices pass validation
C33_LimitAboveTrigger ==
    \E k \in Calls("oco_prices") :
        /\ out[k].a.sl_bps = 10000
        /\ out[k].r.valid
        /\ out[k].r.sl_trigger = 0
        /\ out[k].r.sl_limit = out[k].a.tickSize
        /\ out[k].r.sl_limit > out[k].r.sl_trigger

\* ------------------------------------------------------------------
\* An exit whose cancellation fails (C34)

\* answers to the calls of an exit flow: the cancellation fails or
\* succeeds, whatever the answers to the calls behind it would be
AnyCancelEnv(s) == {[x EXCEPT !.cancel = c] : x \in PlaceEnv(s), c \in {"OK", "FAIL"}}

\* the operator's CLOSE_POSITION, the exchange answering the cancellation
\* either way
ClosePositionAnyCancel ==
    /\ running
    /\ \E env \in AnyCancelEnv(Cur) : Step(process_command(Cur, "CLOSE_POSITION", env, "OK"))

NextExitCancel ==
    \/ MarketTrade
    \/ DeliverOrderUpdate
    \/ ClosePositionAnyCancel

SpecExitCancel == InitEntryPlaced /\ [][NextExitCancel]_vars

\* cancel_all_orders returned None: a failure other than "no open orders",
\* which is answered with the empty list
CancelAllFailed == \E k \in Calls("cancel_all_orders") : out[k].r # "OK"

\* C34: in the exit flow, when the cancellation of all orders fails with
\* anything other than "no open orders", the exit is aborted: no market
\* sell is submitted.
C34_FailedCancelAbortsExit ==
    (ExitInitiated /\ CancelAllFailed) => MarketSells = {}

\* the cancellation failed for an open position although a price was on
\* offer: the flow stopped before asking for it, and nothing was sold
C34_ExitStoppedAtCancel ==
    /\ CommandProcessed("CLOSE_POSITION")
    /\ ExitInitiated
    /\ CancelAllFailed
    /\ HasPosition(Cur)
    /\ Calls("get_current_price") = {}
    /\ MarketSells = {}

\* ------------------------------------------------------------------
\* An exit whose quantity cannot be sold (C35)

LowPrice == 500     \* a price at which the largest position is below the minimum notional

\* answers to the calls of an exit flow at either price
AnyPriceEnv(s) ==
    {[x EXCEPT !.cancel = "OK", !.price = pr] : x \in PlaceEnv(s), pr \in {LowPrice, 1000}}

\* the operator's CLOSE_POSITION while the market stands at either price
ClosePositionAtPrice ==
    /\ running
    /\ \E env \in AnyPriceEnv(Cur) : Step(process_command(Cur, "CLOSE_POSITION", env, "OK"))

NextExitChecks ==
    \/ MarketTrade
    \/ DeliverOrderUpdate
    \/ ClosePositionAtPrice

SpecExitChecks == InitEntryPlaced /\ [][NextExitChecks]_vars

\* the quantity the exit flow gets from the lot-size rules for the position
\* it found, under the symbol info it ends with
ExitQuantity == adjust_quantity(symbolInfo', FInt(PositionQty))

\* C35: in the exit flow, when the position's full quantity fails the
\* lot-size adjustment, or fails the minimum-notional check at the price
\* returned, the Position row is deleted locally and no sell is submitted.
C35_UnsellableClosedLocally ==
    [][(/\ HasPosition(Cur)
        /\ PositionQty > 0
        /\ CommandProcessed("CLOSE_POSITION")'
        /\ \/ ExitQuantity = NoneNum
           \/ ExitQuantity <= 0
           \/ \E k \in Calls("get_current_price")' :
                 out'[k].q > 0 /\ ~check_min_notional(symbolInfo', ExitQuantity, out'[k].q))
          => (~HasPosition(Cur) /\ MarketSells = {})']_vars

\* the position passed the lot-size rules and failed the minimum notional
\* at the price returned: it was closed locally, nothing was sold
C35_BelowNotionalClosedLocally ==
    /\ CommandProcessed("CLOSE_POSITION")
    /\ \E k \in Calls("get_current_price") : out[k].q = LowPrice
    /\ Emitted("TRADE_ERROR")
    /\ Emitted("POSITION_UPDATE:CLOSED_LOCAL_ONLY")
    /\ ~HasPosition(Cur)
    /\ MarketSells = {}


\* ---------------------------------------------------------------------------
\* C36  BUY signals while an entry buy is outstanding

\* entry buys booked locally whose order still has events to deliver
EntryOutstanding(s) ==
    {k \in DOMAIN s.orders :
        /\ s.orders[k].purpose = "ENTRY"
        /\ \E n \in 1..Len(s.wsQueue) : InternalIdOf(s.wsQueue[n]) = k /\ s.wsQueue[n].X = "FILLED"}

\* events the stream may hold when two market buys are acknowledged one
\* after the other: NEW and FILLED of each
MaxBuyQueue == 4

\* a closed candle for which the strategy returns BUY
BuySignal ==
    /\ running
    /\ \E env \in SignalEnv(Cur, "BUY") :
         \E s \in {process_signal(Cur, "BUY", env)} :
             /\ s.nextOrderId <= MaxOrders + 1
             /\ Len(s.wsQueue) <= MaxBuyQueue
             /\ Len(s.history) <= MaxHistory
             /\ Commit(s)

NextBuySignals ==
    \/ Initialize
    \/ Start
    \/ BalanceUpdate
    \/ BuySignal
    \/ DeliverOrderUpdate

\* BUY signals and the delivery of the orders' events, in any order
SpecBuySignals == Init /\ [][NextBuySignals]_vars

\* C36: while an entry market buy has been submitted and its terminal event
\* has not been handled yet, a BUY signal submits no further buy, whatever
\* status the exchange acknowledged the first buy with.
C36_NoSecondBuyWhileEntryOutstanding ==
    [][(EntryOutstanding(Cur) # {} /\ SignalProcessed("BUY")') => Calls("place_order")' = {}]_vars

\* a BUY signal submits a second buy while the first one, acknowledged as
\* FILLED, still waits for its FILLED event
C36_SecondBuySubmitted ==
    /\ SignalProcessed("BUY")
    /\ \E k \in Calls("place_order") : out[k].a = "BUY" /\ out[k].r = "OK"
    /\ \E n \in DOMAIN wsQueue :
          /\ wsQueue[n].X = "FILLED"
          /\ wsQueue[n].S = "BUY"
          /\ wsQueue[n].i < nextOrderId - 1
          /\ InternalIdOf(wsQueue[n]) \in DOMAIN orders
          /\ orders[InternalIdOf(wsQueue[n])].status = "FILLED"

\* ---------------------------------------------------------------------------
\* C37  realized PnL of an exit that filled in several trades

\* the PnL of closing the position pos with the exit order of event ev when
\* the entry notional is taken over the whole quantity the order sold
PnlOverWholeExit(pos, ev) ==
    calculate_trade_pnl([pos EXCEPT !.quantity = ev.z], ev.ap, ev.z, ev.n, ev.N)

\* the step handled the FILLED event of an exit order that had traded before
FilledAfterPartials ==
    /\ Handled
    /\ HandledEvent.X = "FILLED"
    /\ HandledPurpose \in exit_purposes
    /\ HandledEvent.l < HandledEvent.z

\* C37: when an exit order fills through PARTIALLY_FILLED events followed by
\* FILLED, the realized PnL added to the session is computed with the entry
\* notional of the whole quantity exited, not of the quantity left after
\* the partial-fill reductions.
C37_PnlOverWholeQuantity ==
    [][(HasPosition(Cur) /\ FilledAfterPartials') =>
          stats'.total_pnl = FAdd(stats.total_pnl,
                                  PnlOverWholeExit(get_open_position(Cur), HandledEvent')[1])]_vars

\* an exit that sold the position in two trades is closed with a realized
\* PnL above what the prices of the feed can yield on the quantity sold
C37_PnlOverRemainder ==
    /\ FilledAfterPartials
    /\ Emitted("POSITION_UPDATE:CLOSED")
    /\ stats.total_trades = 1
    /\ FLess(FInt(HandledEvent.z * 100), stats.total_pnl)

\* ---------------------------------------------------------------------------
\* C38  persistence failures in the order-update handler

\* the store calls of the handler that may raise StateManagerError
StoreCalls == {"add_trade_history_entry", "update_trade_pnl", "active_order"}

\* _handle_order_update_async when the store call "failing" raises
\* StateManagerError: the trade-history append and the PnL back-fill have an
\* except clause of their own, the active-order write that opens every
\* status branch is caught by the handler's outer except clause
handle_order_update_store_failure(s, ev, env, failing) ==
    IF ~s.running THEN s
    ELSE IF InternalIdOf(ev) = NoKey THEN s
    ELSE
    LET internal_id == InternalIdOf(ev)
        purpose == IF HasActiveOrder(s, internal_id)
                   THEN get_active_order(s, internal_id).purpose ELSE "UNKNOWN"
        raised(x) == Emit(x, Call("StateManagerError", failing, 0, internal_id, ""))
        s0 == Emit(s, Handle(ev, internal_id, purpose))
        trade_occurred == ev.l > 0 /\ ev.X \in {"FILLED", "PARTIALLY_FILLED"}
        logged == trade_occurred /\ failing # "add_trade_history_entry"
        s1 == IF logged
              THEN put_event(add_trade_history_entry(s0, TradeLogEntry(ev, purpose)),
                             "TRADE_UPDATE")
              ELSE IF trade_occurred THEN raised(s0)
              ELSE s0
        trade_id_for_pnl == IF logged THEN LastTradeId(s1) ELSE 0
    IN  IF failing = "active_order" THEN put_event(raised(s1), "ERROR")
        ELSE
        CASE ev.X = "FILLED" ->
               LET s2 == remove_active_order(s1, internal_id)
               IN  IF purpose = "ENTRY" THEN OnEntryFilled(s2, ev, env)
                   ELSE IF purpose \in exit_purposes
                   THEN IF failing = "update_trade_pnl" /\ HasPosition(s2) /\ trade_id_for_pnl # 0
                        THEN OnExitFilled(raised(s2), ev, 0)
                        ELSE OnExitFilled(s2, ev, trade_id_for_pnl)
                   ELSE s2
          [] ev.X \in {"CANCELED", "REJECTED", "EXPIRED"} ->
               LET s2 == put_event(remove_active_order(s1, internal_id),
                                   IF ev.X = "CANCELED" THEN "WARNING" ELSE "ERROR")
               IN  IF purpose \in {"TP", "SL"} /\ HasPosition(s2)
                   THEN OnProtectionFailed(s2, env)
                   ELSE s2
          [] ev.X = "PARTIALLY_FILLED" ->
               LET s2 == SaveOrder(s1, internal_id, purpose, ev.X, ev.i, ev.c, ev.S)
                   s3 == IF purpose = "ENTRY" THEN OnEntryPartial(s2, ev)
                         ELSE IF purpose \in exit_purposes THEN OnExitPartial(s2, ev)
                         ELSE s2
               IN  put_event(s3, "NOTIFICATION")
          [] OTHER -> SaveOrder(s1, internal_id, purpose, ev.X, ev.i, ev.c, ev.S)

\* the store calls that raised in this step
StoreFailures == {out[k].a : k \in Calls("StateManagerError")}

\* the stream reader delivers the next executionReport and a store call of
\* the handler raises
DeliverWithStoreFailure ==
    /\ wsQueue # <<>>
    /\ \E env \in OrderEnv(Cur, Head(wsQueue)), failing \in StoreCalls :
         \E s \in {handle_order_update_store_failure([Cur EXCEPT !.wsQueue = Tail(@)],
                                                     Head(wsQueue), env, failing)} :
             /\ \E k \in DOMAIN s.out : s.out[k].t = "StateManagerError"
             /\ Step(s)

NextStoreFailures ==
    \/ MarketTrade
    \/ DeliverOrderUpdate
    \/ DeliverWithStoreFailure

\* an entry order that trades and the emergency exit that follows a failed
\* bracket, with store calls of the order-update handler that may fail
SpecStoreFailures == InitEntryPlaced /\ [][NextStoreFailures]_vars

\* an error event emitted after the store call failed
SurfacedAfter(k) ==
    \E j \in DOMAIN out :
        j > k /\ out[j].t = "event" /\ out[j].a \in {"ERROR", "CRITICAL_ERROR"}

\* C38: a persistence failure raised while handling an order-status event
\* is always surfaced as an outbound error event (the handler has no caller
\* it could propagate to); it is never only logged.
C38_StoreFailureSurfaced ==
    \A k \in Calls("StateManagerError") : SurfacedAfter(k)

\* the trade-history append failed for a trade and the step emitted no
\* error event at all
C38_TradeLogFailureOnlyLogged ==
    /\ Handled
    /\ "add_trade_history_entry" \in StoreFailures
    /\ ~Emitted("ERROR")
    /\ ~Emitted("CRITICAL_ERROR")
    /\ ~Emitted("TRADE_UPDATE")

\* ---------------------------------------------------------------------------
\* C39  start() on a core that has not been initialized

\* every handler that can run is run eventually
SpecStartFair == Init /\ [][Next]_vars /\ WF_vars(Next)

\* C39: start() always terminates: a start() that holds the engine lock,
\* called on a core that has not been initialized, completes the
\* initialization and returns, which releases the lock.
C39_StartTerminates == (lock = "start") ~> (lock = "free" /\ initialized)

\* start() was called on a core that is not initialized and is suspended in
\* initialize(), waiting for the lock it holds itself
C39_StartWaitsForOwnLock ==
    /\ CommandProcessed("START")
    /\ lock = "start"
    /\ ~initialized
    /\ ~ENABLED Next

\* ---------------------------------------------------------------------------
\* C40  the stream handler's dispatch to the engine's callbacks

NoCallback == ""        \* callbacks.get returned None
NoStream == ""          \* the message has no 'stream' key
NoEventType == ""       \* the message has no 'e' key

\* _create_ws_handler: the callbacks the engine hands to the stream handler
callbacks ==
    [kline |-> "_handle_kline_update_async",
     executionReport |-> "_handle_order_update_async",
     outboundAccountPosition |-> "_handle_balance_update_async"]

callbacks_get(key) == IF key \in DOMAIN callbacks THEN callbacks[key] ELSE NoCallback

\* the part of a combined stream's name after '@'
StreamTypes == {"kline_1m", "trade", "depth5", "bookTicker"}
EventTypes == {"executionReport", "outboundAccountPosition", "balanceUpdate", "listStatus"}
EventTimes == {1, 2}

\* JSON text messages: a service reply has 'result' or 'id', a combined
\* stream message has 'stream' and 'data' (payload names the key it holds),
\* a user-data message has 'e'
WsMessages ==
    [result : BOOLEAN, id : BOOLEAN, stream : StreamTypes \cup {NoStream},
     payload : {"k", "p", ""}, e : EventTypes \cup {NoEventType}, E : EventTimes]

\* one callback looked up under key and awaited when it is there and the
\* payload can be handed to it
Lookup(key, usable) ==
    [lookups |-> <<key>>,
     invoked |-> IF callbacks_get(key) # NoCallback /\ usable THEN callbacks_get(key)
                 ELSE NoCallback]

\* the fallback callback is looked up when no callback has been invoked
WithFallback(d, key) ==
    IF d.invoked # NoCallback THEN d
    ELSE [lookups |-> Append(d.lookups, key), invoked |-> callbacks_get(key)]

NoLookup == [lookups |-> <<>>, invoked |-> NoCallback]

\* BinanceWebSocketHandler._on_message for a text message: the keys it
\* looks up in callbacks and the callback it awaits
on_message(msg) ==
    IF msg.result \/ msg.id THEN NoLookup
    ELSE IF msg.stream # NoStream
    THEN WithFallback(
            IF msg.stream = "kline_1m" THEN Lookup("kline", msg.payload = "k")
            ELSE IF msg.stream = "trade" THEN Lookup("trade", msg.payload = "p")
            ELSE IF msg.stream = "depth5" THEN Lookup("depth", TRUE)
            ELSE NoLookup,
            "other_market")
    ELSE IF msg.e # NoEventType
    THEN WithFallback(
            IF msg.e = "executionReport" THEN Lookup("order_update", TRUE)
            ELSE IF msg.e \in {"outboundAccountPosition", "balanceUpdate"}
            THEN Lookup("balance_update", TRUE)
            ELSE NoLookup,
            "other_user")
    ELSE NoLookup

\* the stream handler reads a message
OnMessage ==
    \E msg \in WsMessages : Step(Emit(Cur, Call("on_message", msg, msg.E, NoKey, on_message(msg))))

SpecWsDispatch == Init /\ [][OnMessage]_vars

\* the messages of the user-data stream the step read
UserMessages ==
    {k \in Calls("on_message") :
        ~out[k].a.result /\ ~out[k].a.id /\ out[k].a.stream = NoStream /\ out[k].a.e # NoEventType}

RECURSIVE Range(_)
Range(seq) == IF seq = <<>> THEN {} ELSE {Head(seq)} \cup Range(Tail(seq))

\* C40: every order-update and balance message the stream handler receives
\* is delivered to the engine's corresponding handler, and each callback
\* key the stream handler looks up for it is a key the engine registered
\* a callback under.
C40_UserMessagesDelivered ==
    \A k \in UserMessages :
        /\ out[k].a.e = "executionReport" => out[k].r.invoked = "_handle_order_update_async"
        /\ out[k].a.e \in {"outboundAccountPosition", "balanceUpdate"}
              => out[k].r.invoked = "_handle_balance_update_async"
        /\ out[k].a.e \in {"executionReport", "outboundAccountPosition", "balanceUpdate"}
              => Range(out[k].r.lookups) \subseteq DOMAIN callbacks

\* an executionReport was read, the keys order_update and other_user were
\* looked up, neither is registered and no callback was awaited
C40_OrderUpdateDropped ==
    \E k \in UserMessages :
        /\ out[k].a.e = "executionReport"
        /\ out[k].r.lookups = <<"order_update", "other_user">>
        /\ out[k].r.invoked = NoCallback

====
